---- MODULE Spec2Model ----
(***************************************************************************)
(* The framed stream multiplexer of launchtunnel-cli (package protocol):   *)
(* Mux (mux.go), Stream (stream.go) and the frame codec (frame.go).        *)
(* Every goroutine is a process with a program counter; one action is one  *)
(* atomic step of the Go code (a channel operation, a select, a critical   *)
(* section of the registry lock, a step of sync.Once).                     *)
(***************************************************************************)
EXTENDS Integers, Sequences, FiniteSets, TLC

(***************************************************************************)
(* Bounds of the model.  The channel capacities of the program (256, 32,   *)
(* 256) are scaled down so that "queue full" is reached.                   *)
(***************************************************************************)
WriteChCap == 1
AcceptChCap == 1
DataChCap == 2
MaxInbound == 1
CloseInbound == 1
OpenInbound == 1
MaxObj == 3
PeerInbound == 4
DropInbound == 3
SendPingInbound == 1
PongInbound == 2
MaxBuf == 2
MaxReads == 4

(***************************************************************************)
(* Program constants.                                                      *)
(***************************************************************************)
FrameOpenStream == 1
FrameData == 2
FrameCloseStream == 3
FramePing == 4
FramePong == 5

VARIABLES
    m,       \* the Mux struct: its fields
    conn,    \* the transport (websocket.Conn) and what was written to it
    st,      \* the Stream objects, by handle
    pc,      \* each goroutine's position
    lv,      \* each goroutine's local variables
    ret,     \* each API call's return value
    hist     \* history: frames enqueued, close() calls per channel, panics

vars == <<m, conn, st, pc, lv, ret, hist>>

(***************************************************************************)
(* Goroutines.                                                             *)
(***************************************************************************)
Reader == "reader"
Writer == "writer"
Closers == {"close1", "close2"}
Pingers == {"ping1", "ping2"}
Acceptors == {"accept1"}
Openers == {"open1", "open2", "open3"}
SClosers == {"sclose1", "sclose2"}
SWriters == {"swrite1"}
\* the goroutines that call Write on one stream concurrently
CoWriters == SWriters \cup {"swrite2"}
SReaders == {"sread1"}
Coders == {"coder1"}
\* the goroutines that call Read on one stream concurrently
CoReaders == SReaders \cup {"sread2"}
\* the goroutine that runs runTunnelLoop
Tunnel == "loop"
\* the goroutines that call OnPong
Registrars == {"onpong1", "onpong2"}
Procs == {Reader, Writer} \cup Closers \cup Pingers \cup Acceptors \cup Openers
             \cup SClosers \cup CoWriters \cup CoReaders \cup Coders \cup {Tunnel} \cup Registrars

Handles == 1..MaxObj

Frame(t, id, payload) == [type |-> t, id |-> id, payload |-> payload]

(***************************************************************************)
(* Frame codec (frame.go).  Bytes are 0..255; a uint32 is four bytes,      *)
(* big-endian.                                                             *)
(***************************************************************************)
MaxPayloadSize == 10 * 1024 * 1024

frameHeaderSize == 9

(***************************************************************************)
(* A uint32 is the pair of its 16-bit halves (TLC's integers are 32-bit    *)
(* signed): U32(n) for 0 <= n < 2^31, arithmetic modulo 2^32.              *)
(***************************************************************************)
U32(n) == [hi |-> n \div 65536, lo |-> n % 65536]

\* u + k modulo 2^32, for a small k
Add32(u, k) ==
    LET l == u.lo + k
    IN  [hi |-> (u.hi + (l \div 65536)) % 65536, lo |-> l % 65536]

\* u > n for a uint32 u and 0 <= n < 2^31
Gt32(u, n) == u.hi > n \div 65536 \/ (u.hi = n \div 65536 /\ u.lo > n % 65536)

\* the value of a uint32 below 2^31
Nat32(u) == u.hi * 65536 + u.lo

\* a PutUint32 in little-endian order
PutUint32LE(u) == << u.lo % 256, u.lo \div 256, u.hi % 256, u.hi \div 256 >>

\* binary.BigEndian.PutUint32
PutUint32(u) == << u.hi \div 256, u.hi % 256, u.lo \div 256, u.lo % 256 >>

\* binary.BigEndian.Uint32
Uint32(b) == [hi |-> b[1] * 256 + b[2], lo |-> b[3] * 256 + b[4]]

NoFrame == Frame(0, U32(0), <<>>)

\* EncodeFrame (frame.go:39-47)
EncodeFrame(f) ==
    <<f.type>> \o PutUint32(f.id) \o PutUint32(U32(Len(f.payload))) \o f.payload

\* a DecodeFrame that returns what it has read when the payload is cut short
DecodeFramePartial(r) ==
    IF Len(r) < frameHeaderSize
    THEN [err |-> "header", frame |-> NoFrame, consumed |-> Len(r)]
    ELSE LET fType == r[1]
             streamID == Uint32(SubSeq(r, 2, 5))
             payloadLen == Uint32(SubSeq(r, 6, 9))
         IN  IF fType < FrameOpenStream \/ fType > FramePong
             THEN [err |-> "ErrInvalidFrame", frame |-> NoFrame,
                   consumed |-> frameHeaderSize]
             ELSE IF Gt32(payloadLen, MaxPayloadSize)
             THEN [err |-> "ErrPayloadTooLarge", frame |-> NoFrame,
                   consumed |-> frameHeaderSize]
             ELSE IF Len(r) - frameHeaderSize < Nat32(payloadLen)
             THEN [err |-> "payload",
                   frame |-> Frame(fType, streamID, SubSeq(r, frameHeaderSize + 1, Len(r))),
                   consumed |-> Len(r)]
             ELSE [err |-> "nil",
                   frame |-> Frame(fType, streamID,
                                   SubSeq(r, frameHeaderSize + 1,
                                          frameHeaderSize + Nat32(payloadLen))),
                   consumed |-> frameHeaderSize + Nat32(payloadLen)]

\* a DecodeFrame that validates the declared length before the type
DecodeFrameLenFirst(r) ==
    IF Len(r) < frameHeaderSize
    THEN [err |-> "header", frame |-> NoFrame, consumed |-> Len(r)]
    ELSE LET fType == r[1]
             streamID == Uint32(SubSeq(r, 2, 5))
             payloadLen == Uint32(SubSeq(r, 6, 9))
         IN  IF Gt32(payloadLen, MaxPayloadSize)
             THEN [err |-> "ErrPayloadTooLarge", frame |-> NoFrame,
                   consumed |-> frameHeaderSize]
             ELSE IF fType < FrameOpenStream \/ fType > FramePong
             THEN [err |-> "ErrInvalidFrame", frame |-> NoFrame,
                   consumed |-> frameHeaderSize]
             ELSE IF Len(r) - frameHeaderSize < Nat32(payloadLen)
             THEN [err |-> "payload", frame |-> NoFrame, consumed |-> Len(r)]
             ELSE [err |-> "nil",
                   frame |-> Frame(fType, streamID,
                                   SubSeq(r, frameHeaderSize + 1,
                                          frameHeaderSize + Nat32(payloadLen))),
                   consumed |-> frameHeaderSize + Nat32(payloadLen)]

\* DecodeFrame (frame.go:50-80) on the bytes of one reader: the frame, the error
\* and the number of bytes consumed from the reader.
DecodeFrame(r) ==
    IF Len(r) < frameHeaderSize
    THEN [err |-> "header", frame |-> NoFrame, consumed |-> Len(r)]
    ELSE LET fType == r[1]
             streamID == Uint32(SubSeq(r, 2, 5))
             payloadLen == Uint32(SubSeq(r, 6, 9))
         IN  IF fType < FrameOpenStream \/ fType > FramePong
             THEN [err |-> "ErrInvalidFrame", frame |-> NoFrame,
                   consumed |-> frameHeaderSize]
             ELSE IF Gt32(payloadLen, MaxPayloadSize)
             THEN [err |-> "ErrPayloadTooLarge", frame |-> NoFrame,
                   consumed |-> frameHeaderSize]
             ELSE IF Len(r) - frameHeaderSize < Nat32(payloadLen)
             THEN [err |-> "payload", frame |-> NoFrame, consumed |-> Len(r)]
             ELSE [err |-> "nil",
                   frame |-> Frame(fType, streamID,
                                   SubSeq(r, frameHeaderSize + 1,
                                          frameHeaderSize + Nat32(payloadLen))),
                   consumed |-> frameHeaderSize + Nat32(payloadLen)]

EmptyMap == [x \in {} |-> 0]

\* m.streams[id] = s
MapPut(map, id, s) == [x \in DOMAIN map \cup {id} |-> IF x = id THEN s ELSE map[x]]

\* delete(m.streams, id)
MapDelete(map, id) == [x \in DOMAIN map \ {id} |-> map[x]]

Range(f) == {f[x] : x \in DOMAIN f}

NoStream == [alloc |-> FALSE, ID |-> U32(0), closed |-> FALSE, closeOnce |-> "idle",
             dataCh |-> <<>>, readBuf |-> <<>>, wrMu |-> "none"]

\* newStream(id, writeFn, closeFn)
newStream(id) == [alloc |-> TRUE, ID |-> id, closed |-> FALSE, closeOnce |-> "idle",
                  dataCh |-> <<>>, readBuf |-> <<>>, wrMu |-> "none"]

NoLocals == [s |-> 0, id |-> U32(0), data |-> <<>>, len |-> 0, sweep |-> {}, ctxDone |-> FALSE,
             frame |-> NoFrame, out |-> NoFrame, exitCode |-> -1, fn |-> 0, noReconnect |-> FALSE]

\* What a call returned: a byte count and an error ("pending" until it returns).
Pending == [n |-> 0, err |-> "pending"]

Ret(n, err) == [n |-> n, err |-> err]

\* NewMux(conn, isServer): the state after construction, readLoop and writeLoop started
NewMux(isServer) ==
    [closed |-> FALSE, once |-> "idle", mu |-> "none", streams |-> EmptyMap,
     nextID |-> IF isServer THEN U32(2) ELSE U32(1), isServer |-> isServer, maxStreams |-> 0,
     acceptCh |-> <<>>, acceptChClosed |-> FALSE,
     writeCh |-> <<>>, writeChClosed |-> FALSE,
     writeDone |-> FALSE, done |-> FALSE, onPong |-> 0]

\* The remote Mux of a connected pair (the server end), as far as its OpenStream calls
\* and its writeLoop go: its counter, its outbound queue, its callers of OpenStream and
\* the IDs of the streams OpenStream has returned, in the order of their frames.
RemoteOpeners == {"ropen1", "ropen2"}

NewRemote == [nextID |-> U32(2), writeCh |-> <<>>,
              pc |-> [q \in RemoteOpeners |-> "idle"],
              id |-> [q \in RemoteOpeners |-> U32(0)],
              opened |-> <<>>]

\* The websocket connection: sent holds what this end has written, wire what the remote
\* end has written and this end has not read yet, inLeft how many messages a scripted
\* peer may still send.
NewConn == [closed |-> FALSE, broken |-> FALSE, sent |-> <<>>, inLeft |-> MaxInbound,
            wire |-> <<>>, remote |-> NewRemote]

NoHist == [enq |-> <<>>, nClosed |-> 0, nAcceptCh |-> 0, nWriteCh |-> 0,
           nWriteDone |-> 0, nDone |-> 0, bodies |-> 0, panic |-> FALSE,
           writeFailed |-> FALSE, readFailed |-> FALSE, pongs |-> <<>>,
           recv |-> [s \in Handles |-> <<>>],
           pushed |-> [s \in Handles |-> <<>>], got |-> [s \in Handles |-> <<>>],
           blockedOpen |-> FALSE, allocs |-> <<>>, accepted |-> <<>>, writeOnClosed |-> FALSE,
           notified |-> FALSE, muxes |-> 1, status |-> -1, reconnects |-> 0,
           lateReconnect |-> FALSE, reconnectFailed |-> FALSE,
           cancelBlocked |-> FALSE, lateOpen |-> FALSE, order |-> <<>>, reads |-> [s \in Handles |-> <<>>], trigger |-> [s \in Handles |-> "none"],
           wrLocks |-> <<>>]

Goto(p, l) == pc' = [pc EXCEPT ![p] = l]

(***************************************************************************)
(* writeWS (mux.go:286-299): one select between the send on writeCh and    *)
(* <-m.closed.  A send on the closed writeCh panics and the deferred       *)
(* recover turns the panic into ErrMuxClosed.  Sets m', hist', pc'.        *)
(***************************************************************************)
WriteWSCanSend == ~m.writeChClosed /\ Len(m.writeCh) < WriteChCap

WriteWSCanFail == m.closed \/ m.writeChClosed

writeWS(p, data, pcOk, retOk, pcErr, retErr) ==
    \/ /\ WriteWSCanSend
       /\ m' = [m EXCEPT !.writeCh = Append(@, data)]
       /\ hist' = [hist EXCEPT !.enq = Append(@, data)]
       /\ Goto(p, pcOk)
       /\ ret' = [ret EXCEPT ![p] = retOk]
    \/ /\ WriteWSCanFail
       /\ UNCHANGED <<m, hist>>
       /\ Goto(p, pcErr)
       /\ ret' = [ret EXCEPT ![p] = retErr]

(***************************************************************************)
(* Mux.shutdown (mux.go:159-179).  sync.Once.Do holds the Once's mutex     *)
(* while the body runs: a second caller blocks until the body has          *)
(* returned, a caller that finds the Once done returns at once.            *)
(* hist.order lists the steps of the body in the order they were taken.    *)
(***************************************************************************)
AfterShutdown(p) ==
    IF p = Reader THEN "r_exit" ELSE IF p = Writer THEN "w_exit" ELSE "c_wait"

\* a shutdown without the Once: every caller runs the body
SdNoOnce(p) ==
    /\ pc[p] = "sd_once"
    /\ m.once # "running"
    /\ m' = [m EXCEPT !.once = "running"]
    /\ hist' = [hist EXCEPT !.bodies = @ + 1]
    /\ Goto(p, "sd_closed")
    /\ UNCHANGED <<conn, st, lv, ret>>

\* m.once.Do(func() {...})
SdOnce(p) ==
    /\ pc[p] = "sd_once"
    /\ \/ /\ m.once = "idle"
          /\ m' = [m EXCEPT !.once = "running"]
          /\ hist' = [hist EXCEPT !.bodies = @ + 1]
          /\ Goto(p, "sd_closed")
       \/ /\ m.once = "done"
          /\ UNCHANGED <<m, hist>>
          /\ Goto(p, AfterShutdown(p))
    /\ UNCHANGED <<conn, st, lv, ret>>

\* close(m.closed)
SdCloseClosed(p) ==
    /\ pc[p] = "sd_closed"
    /\ m' = [m EXCEPT !.closed = TRUE]
    /\ hist' = [hist EXCEPT !.nClosed = @ + 1, !.order = Append(@, "closed")]
    /\ Goto(p, "sd_lock")
    /\ UNCHANGED <<conn, st, lv, ret>>

\* m.mu.Lock(); for _, s := range m.streams
SdLock(p) ==
    /\ pc[p] = "sd_lock"
    /\ m.mu = "none"
    /\ m' = [m EXCEPT !.mu = p]
    /\ lv' = [lv EXCEPT ![p].sweep = Range(m.streams)]
    /\ Goto(p, "sd_sweep")
    /\ UNCHANGED <<conn, st, ret, hist>>

\* Stream.closeRead (stream.go:140-144): s.closeOnce.Do(func() { close(s.closed) })
\* (hist.trigger records who closed the stream first: here the peer or the shutdown)
closeRead(s, who) ==
    /\ st[s].closeOnce # "running"
    /\ IF st[s].closeOnce = "idle"
       THEN /\ st' = [st EXCEPT ![s].closed = TRUE, ![s].closeOnce = "done"]
            /\ hist' = [hist EXCEPT !.trigger[s] = who]
       ELSE UNCHANGED <<st, hist>>

\* s.closeRead() for one stream of the range loop
SdSweep(p) ==
    /\ pc[p] = "sd_sweep"
    /\ \E s \in lv[p].sweep :
          /\ closeRead(s, "shutdown")
          /\ lv' = [lv EXCEPT ![p].sweep = @ \ {s}]
    /\ UNCHANGED <<m, conn, pc, ret>>

\* m.streams = make(map[uint32]*Stream); m.mu.Unlock()
SdUnlock(p) ==
    /\ pc[p] = "sd_sweep"
    /\ lv[p].sweep = {}
    /\ m' = [m EXCEPT !.streams = EmptyMap, !.mu = "none"]
    /\ hist' = [hist EXCEPT !.order = Append(@, "swept")]
    /\ Goto(p, "sd_accept")
    /\ UNCHANGED <<conn, st, lv, ret>>

\* close(m.acceptCh)
SdCloseAccept(p) ==
    /\ pc[p] = "sd_accept"
    /\ m' = [m EXCEPT !.acceptChClosed = TRUE]
    /\ hist' = [hist EXCEPT !.nAcceptCh = @ + 1, !.order = Append(@, "acceptCh")]
    /\ Goto(p, "sd_write")
    /\ UNCHANGED <<conn, st, lv, ret>>

\* a shutdown that does not wait for the writer before it closes the transport
SdCloseWriteNoWait(p) ==
    /\ pc[p] = "sd_write"
    /\ m' = [m EXCEPT !.writeChClosed = TRUE]
    /\ hist' = [hist EXCEPT !.nWriteCh = @ + 1, !.order = Append(@, "writeCh")]
    /\ Goto(p, "sd_conn")
    /\ UNCHANGED <<conn, st, lv, ret>>

\* close(m.writeCh)
SdCloseWrite(p) ==
    /\ pc[p] = "sd_write"
    /\ m' = [m EXCEPT !.writeChClosed = TRUE]
    /\ hist' = [hist EXCEPT !.nWriteCh = @ + 1, !.order = Append(@, "writeCh")]
    /\ Goto(p, "sd_wait")
    /\ UNCHANGED <<conn, st, lv, ret>>

\* <-m.writeDone
SdWaitWriter(p) ==
    /\ pc[p] = "sd_wait"
    /\ m.writeDone
    /\ hist' = [hist EXCEPT !.order = Append(@, "writeDone")]
    /\ Goto(p, "sd_conn")
    /\ UNCHANGED <<m, conn, st, lv, ret>>

\* m.conn.Close(...); the Once's body returns
SdConnClose(p) ==
    /\ pc[p] = "sd_conn"
    /\ conn' = [conn EXCEPT !.closed = TRUE]
    /\ m' = [m EXCEPT !.once = "done"]
    /\ hist' = [hist EXCEPT !.order = Append(@, "conn")]
    /\ Goto(p, AfterShutdown(p))
    /\ UNCHANGED <<st, lv, ret>>

shutdown(p) ==
    \/ SdOnce(p)
    \/ SdCloseClosed(p)
    \/ SdLock(p)
    \/ SdSweep(p)
    \/ SdUnlock(p)
    \/ SdCloseAccept(p)
    \/ SdCloseWrite(p)
    \/ SdWaitWriter(p)
    \/ SdConnClose(p)

(***************************************************************************)
(* Mux.Close (mux.go:152-156): m.shutdown(); <-m.done; return nil          *)
(***************************************************************************)
CloseCall(p) ==
    /\ pc[p] = "idle"
    /\ Goto(p, "sd_once")
    /\ UNCHANGED <<m, conn, st, lv, ret, hist>>

CloseWaitDone(p) ==
    /\ pc[p] = "c_wait"
    /\ m.done
    /\ Goto(p, "returned")
    /\ ret' = [ret EXCEPT ![p] = Ret(0, "nil")]
    /\ UNCHANGED <<m, conn, st, lv, hist>>

(***************************************************************************)
(* Mux.writeLoop (mux.go:273-281)                                          *)
(***************************************************************************)
\* for data := range m.writeCh
WRecv ==
    /\ pc[Writer] = "w_recv"
    /\ \/ /\ m.writeCh # <<>>
          /\ lv' = [lv EXCEPT ![Writer].data = Head(m.writeCh)]
          /\ m' = [m EXCEPT !.writeCh = Tail(@)]
          /\ Goto(Writer, "w_write")
       \/ /\ m.writeCh = <<>>
          /\ m.writeChClosed
          /\ Goto(Writer, "w_exit")
          /\ UNCHANGED <<m, lv>>
    /\ UNCHANGED <<conn, st, ret, hist>>

\* a writer that appends the frame to the transport message it wrote before
WWriteBatched ==
    /\ pc[Writer] = "w_write"
    /\ IF conn.broken \/ conn.closed
       THEN /\ Goto(Writer, "sd_once")
            /\ hist' = [hist EXCEPT !.writeFailed = TRUE]
            /\ UNCHANGED conn
       ELSE /\ conn' = [conn EXCEPT !.sent =
                          IF @ = <<>> THEN <<lv[Writer].data>>
                          ELSE [@ EXCEPT ![Len(@)] = @ \o lv[Writer].data]]
            /\ Goto(Writer, "w_recv")
            /\ UNCHANGED hist
    /\ UNCHANGED <<m, st, lv, ret>>

\* m.conn.Write(...): fails when the transport is lost or closed
WWrite ==
    /\ pc[Writer] = "w_write"
    /\ IF conn.broken \/ conn.closed
       THEN /\ Goto(Writer, "sd_once")
            /\ hist' = [hist EXCEPT !.writeFailed = TRUE]
            /\ UNCHANGED conn
       ELSE /\ conn' = [conn EXCEPT !.sent = Append(@, lv[Writer].data)]
            /\ Goto(Writer, "w_recv")
            /\ UNCHANGED hist
    /\ UNCHANGED <<m, st, lv, ret>>

\* defer close(m.writeDone)
WExit ==
    /\ pc[Writer] = "w_exit"
    /\ m' = [m EXCEPT !.writeDone = TRUE]
    /\ hist' = [hist EXCEPT !.nWriteDone = @ + 1]
    /\ Goto(Writer, "exited")
    /\ UNCHANGED <<conn, st, lv, ret>>

writeLoop == WRecv \/ WWrite \/ WExit \/ shutdown(Writer)

(***************************************************************************)
(* The transport is lost: from now on Read and Write return an error.      *)
(***************************************************************************)
TransportLoss ==
    /\ ~conn.broken
    /\ ~conn.closed
    /\ conn' = [conn EXCEPT !.broken = TRUE]
    /\ UNCHANGED <<m, st, pc, lv, ret, hist>>

(***************************************************************************)
(* Mux.readLoop (mux.go:182-221) and its handlers.                         *)
(***************************************************************************)
\* The lowest stream object not yet constructed (0: the model's objects are used up).
FreshHandle ==
    IF \E s \in Handles : ~st[s].alloc
    THEN CHOOSE s \in Handles : ~st[s].alloc /\ \A t \in Handles : t < s => st[t].alloc
    ELSE 0

\* m.conn.Read returns a message the peer sent (one of msgs)
RReadMsg(msgs) ==
    /\ pc[Reader] = "r_read"
    /\ ~conn.broken /\ ~conn.closed
    /\ conn.inLeft > 0
    /\ \E data \in msgs :
          /\ (data # <<>> /\ data[1] = FrameOpenStream) => FreshHandle # 0
          /\ lv' = [lv EXCEPT ![Reader].data = data]
    /\ conn' = [conn EXCEPT !.inLeft = @ - 1]
    /\ Goto(Reader, "r_check")
    /\ UNCHANGED <<m, st, ret, hist>>

\* m.conn.Read returns an error: m.shutdown(); return
RReadErr ==
    /\ pc[Reader] = "r_read"
    /\ conn.broken \/ conn.closed
    /\ hist' = [hist EXCEPT !.readFailed = TRUE]
    /\ Goto(Reader, "sd_once")
    /\ UNCHANGED <<m, conn, st, lv, ret>>

\* Where readLoop goes with the message it read (mux.go:193-219)
\* a read loop that returns on a message it cannot decode
DispatchFatal(data) ==
    IF Len(data) < frameHeaderSize THEN "r_read"
    ELSE IF DecodeFrame(data).err # "nil" THEN "sd_once"
    ELSE IF m.closed THEN "r_exit"
    ELSE LET t == DecodeFrame(data).frame.type
         IN  IF t = FrameOpenStream THEN "r_open"
             ELSE IF t = FrameData THEN "r_data"
             ELSE IF t = FrameCloseStream THEN "r_close"
             ELSE IF t = FramePing THEN "r_ping"
             ELSE "r_pong"

Dispatch(data) ==
    IF Len(data) < frameHeaderSize THEN "r_read"
    ELSE IF DecodeFrame(data).err # "nil" THEN "r_read"
    ELSE IF m.closed THEN "r_exit"
    ELSE LET t == DecodeFrame(data).frame.type
         IN  IF t = FrameOpenStream THEN "r_open"
             ELSE IF t = FrameData THEN "r_data"
             ELSE IF t = FrameCloseStream THEN "r_close"
             ELSE IF t = FramePing THEN "r_ping"
             ELSE "r_pong"

RCheck ==
    /\ pc[Reader] = "r_check"
    /\ Goto(Reader, Dispatch(lv[Reader].data))
    /\ lv' = [lv EXCEPT ![Reader].id = DecodeFrame(lv[Reader].data).frame.id]
    /\ UNCHANGED <<m, conn, st, ret, hist>>

\* a handleOpenStream that applies the cap of OpenStream to inbound streams
HoRegisterCapped ==
    /\ pc[Reader] = "r_open"
    /\ m.mu = "none"
    /\ FreshHandle # 0
    /\ IF m.maxStreams > 0 /\ Cardinality(DOMAIN m.streams) >= m.maxStreams
       THEN /\ Goto(Reader, "r_read")
            /\ UNCHANGED <<st, m, lv>>
       ELSE /\ st' = [st EXCEPT ![FreshHandle] = newStream(lv[Reader].id)]
            /\ m' = [m EXCEPT !.streams = MapPut(@, lv[Reader].id, FreshHandle)]
            /\ lv' = [lv EXCEPT ![Reader].s = FreshHandle]
            /\ Goto(Reader, "r_enq")
    /\ UNCHANGED <<conn, ret, hist>>

\* a handleOpenStream that unlocks the registry only after the enqueue
HoRegisterLocked ==
    /\ pc[Reader] = "r_open"
    /\ m.mu = "none"
    /\ FreshHandle # 0
    /\ st' = [st EXCEPT ![FreshHandle] = newStream(lv[Reader].id)]
    /\ m' = [m EXCEPT !.streams = MapPut(@, lv[Reader].id, FreshHandle), !.mu = Reader]
    /\ lv' = [lv EXCEPT ![Reader].s = FreshHandle]
    /\ Goto(Reader, "r_enq")
    /\ UNCHANGED <<conn, ret, hist>>

\* handleOpenStream (mux.go:223-229): newStream, m.streams[id] = s under the lock
HoRegister ==
    /\ pc[Reader] = "r_open"
    /\ m.mu = "none"
    /\ FreshHandle # 0
    /\ st' = [st EXCEPT ![FreshHandle] = newStream(lv[Reader].id)]
    /\ m' = [m EXCEPT !.streams = MapPut(@, lv[Reader].id, FreshHandle)]
    /\ lv' = [lv EXCEPT ![Reader].s = FreshHandle]
    /\ Goto(Reader, "r_enq")
    /\ UNCHANGED <<conn, ret, hist>>

\* a handleOpenStream that gives the stream up when the accept queue is full
HoEnqueueDrop ==
    /\ pc[Reader] = "r_enq"
    /\ IF Len(m.acceptCh) < AcceptChCap
       THEN m' = [m EXCEPT !.acceptCh = Append(@, lv[Reader].s)]
       ELSE UNCHANGED m
    /\ Goto(Reader, "r_read")
    /\ UNCHANGED <<conn, st, lv, ret, hist>>

\* handleOpenStream (mux.go:230-233): select { case m.acceptCh <- s: case <-m.closed: }
\* A send on the closed acceptCh panics; nothing recovers it and the program dies.
HoEnqueue ==
    /\ pc[Reader] = "r_enq"
    /\ \/ /\ ~m.acceptChClosed
          /\ Len(m.acceptCh) < AcceptChCap
          /\ m' = [m EXCEPT !.acceptCh = Append(@, lv[Reader].s)]
          /\ Goto(Reader, "r_read")
          /\ UNCHANGED hist
       \/ /\ m.acceptChClosed
          /\ hist' = [hist EXCEPT !.panic = TRUE]
          /\ pc' = [p \in Procs |-> "crashed"]
          /\ UNCHANGED m
       \/ /\ m.closed
          /\ Goto(Reader, "r_read")
          /\ UNCHANGED <<m, hist>>
    /\ UNCHANGED <<conn, st, lv, ret>>

\* handleData (mux.go:236-242): the lookup under the read lock
\* a handleData that ends the read loop on a frame for an unknown stream
HdLookupFatal ==
    /\ pc[Reader] = "r_data"
    /\ m.mu = "none"
    /\ IF lv[Reader].id \in DOMAIN m.streams
       THEN /\ lv' = [lv EXCEPT ![Reader].s = m.streams[lv[Reader].id]]
            /\ Goto(Reader, "r_push")
       ELSE /\ Goto(Reader, "sd_once")
            /\ UNCHANGED lv
    /\ UNCHANGED <<m, conn, st, ret, hist>>

HdLookup ==
    /\ pc[Reader] = "r_data"
    /\ m.mu = "none"
    /\ IF lv[Reader].id \in DOMAIN m.streams
       THEN /\ lv' = [lv EXCEPT ![Reader].s = m.streams[lv[Reader].id]]
            /\ Goto(Reader, "r_push")
       ELSE /\ Goto(Reader, "r_read")
            /\ UNCHANGED lv
    /\ UNCHANGED <<m, conn, st, ret, hist>>

\* Stream.pushData (stream.go:132-137): select { case s.dataCh <- data: case <-s.closed: }
\* (hist.recv: the payloads handed to pushData; hist.pushed: those it queued)
pushData(s, data) ==
    \/ /\ Len(st[s].dataCh) < DataChCap
       /\ st' = [st EXCEPT ![s].dataCh = Append(@, data)]
       /\ hist' = [hist EXCEPT !.recv[s] = Append(@, data), !.pushed[s] = Append(@, data)]
    \/ /\ st[s].closed
       /\ hist' = [hist EXCEPT !.recv[s] = Append(@, data)]
       /\ UNCHANGED st

HdPush ==
    /\ pc[Reader] = "r_push"
    /\ pushData(lv[Reader].s, DecodeFrame(lv[Reader].data).frame.payload)
    /\ Goto(Reader, "r_read")
    /\ UNCHANGED <<m, conn, lv, ret>>

\* handleCloseStream (mux.go:246-252): the lookup under the read lock
HcLookup ==
    /\ pc[Reader] = "r_close"
    /\ m.mu = "none"
    /\ IF lv[Reader].id \in DOMAIN m.streams
       THEN /\ lv' = [lv EXCEPT ![Reader].s = m.streams[lv[Reader].id]]
            /\ Goto(Reader, "r_cread")
       ELSE /\ Goto(Reader, "r_read")
            /\ UNCHANGED lv
    /\ UNCHANGED <<m, conn, st, ret, hist>>

\* handleCloseStream (mux.go:253): s.closeRead()
HcCloseRead ==
    /\ pc[Reader] = "r_cread"
    /\ closeRead(lv[Reader].s, "remote")
    /\ Goto(Reader, "r_remove")
    /\ UNCHANGED <<m, conn, lv, ret>>

\* removeStream (mux.go:321-325)
removeStream(id) ==
    /\ m.mu = "none"
    /\ m' = [m EXCEPT !.streams = MapDelete(@, id)]

\* a handleCloseStream that leaves the registry entry in place
HcNoRemove ==
    /\ pc[Reader] = "r_remove"
    /\ Goto(Reader, "r_read")
    /\ UNCHANGED <<m, conn, st, lv, ret, hist>>

\* handleCloseStream (mux.go:254): m.removeStream(id)
HcRemove ==
    /\ pc[Reader] = "r_remove"
    /\ removeStream(lv[Reader].id)
    /\ Goto(Reader, "r_read")
    /\ UNCHANGED <<conn, st, lv, ret, hist>>

\* a handlePing that answers nothing
handlePingSilent ==
    /\ pc[Reader] = "r_ping"
    /\ Goto(Reader, "r_read")
    /\ UNCHANGED <<m, conn, st, lv, ret, hist>>

\* handlePing (mux.go:257-260): the PONG goes through writeWS, its error is dropped
handlePing ==
    /\ pc[Reader] = "r_ping"
    /\ writeWS(Reader, EncodeFrame(Frame(FramePong, U32(0), <<>>)),
               "r_read", ret[Reader], "r_read", ret[Reader])
    /\ UNCHANGED <<conn, st, lv>>

\* a handlePong that keeps the first callback it has read
HpLoadStale ==
    /\ pc[Reader] = "r_pong"
    /\ lv' = [lv EXCEPT ![Reader].fn = IF @ # 0 THEN @ ELSE m.onPong]
    /\ Goto(Reader, "r_fn")
    /\ UNCHANGED <<m, conn, st, ret, hist>>

\* handlePong (mux.go:263-265): m.onPongMu.RLock(); fn := m.onPong; RUnlock()
HpLoad ==
    /\ pc[Reader] = "r_pong"
    /\ lv' = [lv EXCEPT ![Reader].fn = m.onPong]
    /\ Goto(Reader, "r_fn")
    /\ UNCHANGED <<m, conn, st, ret, hist>>

\* handlePong (mux.go:266-268): if fn != nil { fn() }, after the lock is released
HpCall ==
    /\ pc[Reader] = "r_fn"
    /\ hist' = [hist EXCEPT !.pongs = IF lv[Reader].fn # 0
                                      THEN Append(@, lv[Reader].fn) ELSE @]
    /\ Goto(Reader, "r_read")
    /\ UNCHANGED <<m, conn, st, lv, ret>>

\* handlePong (mux.go:262-269)
handlePong == HpLoad \/ HpCall

(***************************************************************************)
(* Mux.OnPong (mux.go:138-142): the slot is written under onPongMu; a      *)
(* callback is a number, 0 is nil.                                         *)
(***************************************************************************)
OnPong(p, fn) ==
    /\ pc[p] = "idle"
    /\ m' = [m EXCEPT !.onPong = fn]
    /\ lv' = [lv EXCEPT ![p].fn = fn]
    /\ Goto(p, "returned")
    /\ ret' = [ret EXCEPT ![p] = Ret(0, "nil")]
    /\ UNCHANGED <<conn, st, hist>>

\* defer close(m.done)
RExit ==
    /\ pc[Reader] = "r_exit"
    /\ m' = [m EXCEPT !.done = TRUE]
    /\ hist' = [hist EXCEPT !.nDone = @ + 1]
    /\ Goto(Reader, "exited")
    /\ UNCHANGED <<conn, st, lv, ret>>

\* readLoop without the arrival of messages
readLoop ==
    \/ RReadErr
    \/ RCheck
    \/ HoRegister
    \/ HoEnqueue
    \/ HdLookup
    \/ HdPush
    \/ HcLookup
    \/ HcCloseRead
    \/ HcRemove
    \/ handlePing
    \/ handlePong
    \/ RExit
    \/ shutdown(Reader)

(***************************************************************************)
(* Mux.SendPing (mux.go:127-135)                                           *)
(***************************************************************************)
\* a SendPing that does not look at m.closed before it enqueues
SpCheckNoClosed(p) ==
    /\ pc[p] = "idle"
    /\ Goto(p, "sp_write")
    /\ UNCHANGED <<m, conn, st, lv, ret, hist>>

SpCheck(p) ==
    /\ pc[p] = "idle"
    /\ IF m.closed
       THEN /\ Goto(p, "returned")
            /\ ret' = [ret EXCEPT ![p] = Ret(0, "ErrMuxClosed")]
       ELSE /\ Goto(p, "sp_write")
            /\ UNCHANGED ret
    /\ UNCHANGED <<m, conn, st, lv, hist>>

SpWrite(p) ==
    /\ pc[p] = "sp_write"
    /\ writeWS(p, EncodeFrame(Frame(FramePing, U32(0), <<>>)),
               "returned", Ret(0, "nil"), "returned", Ret(0, "ErrMuxClosed"))
    /\ UNCHANGED <<conn, st, lv>>

SendPing(p) == SpCheck(p) \/ SpWrite(p)

(***************************************************************************)
(* Mux.AcceptStream (mux.go:112-124)                                       *)
(***************************************************************************)
AcceptCall(p) ==
    /\ pc[p] = "idle"
    /\ Goto(p, "as_select")
    /\ hist' = [hist EXCEPT !.blockedOpen = ~m.closed /\ m.acceptCh = <<>>]
    /\ UNCHANGED <<m, conn, st, lv, ret>>

\* an AcceptStream that selects on the accept queue and the context only
AsSelectNoClosed(p) ==
    /\ pc[p] = "as_select"
    /\ \/ /\ m.acceptCh # <<>>
          /\ lv' = [lv EXCEPT ![p].s = Head(m.acceptCh)]
          /\ m' = [m EXCEPT !.acceptCh = Tail(@)]
          /\ ret' = [ret EXCEPT ![p] = Ret(0, "nil")]
          /\ hist' = [hist EXCEPT !.accepted = Append(@, Head(m.acceptCh))]
       \/ /\ lv[p].ctxDone
          /\ ret' = [ret EXCEPT ![p] = Ret(0, "ctx.Err")]
          /\ UNCHANGED <<m, lv, hist>>
    /\ Goto(p, "returned")
    /\ UNCHANGED <<conn, st>>

\* an AcceptStream that, cancelled, takes a queued stream and returns the error
AsSelectCancelTakes(p) ==
    /\ pc[p] = "as_select"
    /\ \/ /\ m.acceptCh # <<>>
          /\ ~lv[p].ctxDone
          /\ lv' = [lv EXCEPT ![p].s = Head(m.acceptCh)]
          /\ m' = [m EXCEPT !.acceptCh = Tail(@)]
          /\ ret' = [ret EXCEPT ![p] = Ret(0, "nil")]
          /\ hist' = [hist EXCEPT !.accepted = Append(@, Head(m.acceptCh))]
       \/ /\ m.acceptCh = <<>>
          /\ m.acceptChClosed
          /\ ret' = [ret EXCEPT ![p] = Ret(0, "ErrMuxClosed")]
          /\ UNCHANGED <<m, lv, hist>>
       \/ /\ lv[p].ctxDone
          /\ ret' = [ret EXCEPT ![p] = Ret(0, "ctx.Err")]
          /\ m' = [m EXCEPT !.acceptCh = IF @ = <<>> THEN @ ELSE Tail(@)]
          /\ UNCHANGED <<lv, hist>>
       \/ /\ m.closed
          /\ ret' = [ret EXCEPT ![p] = Ret(0, "ErrMuxClosed")]
          /\ UNCHANGED <<m, lv, hist>>
    /\ Goto(p, "returned")
    /\ UNCHANGED <<conn, st>>

\* select { case s, ok := <-m.acceptCh: case <-ctx.Done(): case <-m.closed: }
AsSelect(p) ==
    /\ pc[p] = "as_select"
    /\ \/ /\ m.acceptCh # <<>>
          /\ lv' = [lv EXCEPT ![p].s = Head(m.acceptCh)]
          /\ m' = [m EXCEPT !.acceptCh = Tail(@)]
          /\ ret' = [ret EXCEPT ![p] = Ret(0, "nil")]
          /\ hist' = [hist EXCEPT !.accepted = Append(@, Head(m.acceptCh))]
       \/ /\ m.acceptCh = <<>>
          /\ m.acceptChClosed
          /\ ret' = [ret EXCEPT ![p] = Ret(0, "ErrMuxClosed")]
          /\ UNCHANGED <<m, lv, hist>>
       \/ /\ lv[p].ctxDone
          /\ ret' = [ret EXCEPT ![p] = Ret(0, "ctx.Err")]
          /\ UNCHANGED <<m, lv, hist>>
       \/ /\ m.closed
          /\ ret' = [ret EXCEPT ![p] = Ret(0, "ErrMuxClosed")]
          /\ UNCHANGED <<m, lv, hist>>
    /\ Goto(p, "returned")
    /\ UNCHANGED <<conn, st>>

(***************************************************************************)
(* Mux.OpenStream (mux.go:80-109)                                          *)
(***************************************************************************)
\* select { case <-m.closed: return nil, ErrMuxClosed; default: }
OsCheck(p) ==
    /\ pc[p] = "idle"
    /\ IF m.closed
       THEN /\ Goto(p, "returned")
            /\ ret' = [ret EXCEPT ![p] = Ret(0, "ErrMuxClosed")]
       ELSE /\ Goto(p, "os_alloc")
            /\ UNCHANGED ret
    /\ UNCHANGED <<m, conn, st, lv, hist>>

\* an allocation whose IDs advance by one
OsAllocByOne(p) ==
    /\ pc[p] = "os_alloc"
    /\ m.mu = "none"
    /\ lv' = [lv EXCEPT ![p].id = m.nextID]
    /\ m' = [m EXCEPT !.nextID = Add32(@, 1)]
    /\ hist' = [hist EXCEPT !.allocs = Append(@, m.nextID)]
    /\ Goto(p, "os_register")
    /\ UNCHANGED <<ret, conn, st>>

\* the cap check and the ID allocation under the lock (mux.go:87-94)
OsAlloc(p) ==
    /\ pc[p] = "os_alloc"
    /\ m.mu = "none"
    /\ IF m.maxStreams > 0 /\ Cardinality(DOMAIN m.streams) >= m.maxStreams
       THEN /\ Goto(p, "returned")
            /\ ret' = [ret EXCEPT ![p] = Ret(0, "ErrTooManyStreams")]
            /\ UNCHANGED <<m, lv, hist>>
       ELSE /\ lv' = [lv EXCEPT ![p].id = m.nextID]
            /\ m' = [m EXCEPT !.nextID = Add32(@, 2)]
            /\ hist' = [hist EXCEPT !.allocs = Append(@, m.nextID)]
            /\ Goto(p, "os_register")
            /\ UNCHANGED ret
    /\ UNCHANGED <<conn, st>>

\* newStream and m.streams[id] = s under the lock (mux.go:96-100)
OsRegister(p) ==
    /\ pc[p] = "os_register"
    /\ m.mu = "none"
    /\ FreshHandle # 0
    /\ st' = [st EXCEPT ![FreshHandle] = newStream(lv[p].id)]
    /\ m' = [m EXCEPT !.streams = MapPut(@, lv[p].id, FreshHandle)]
    /\ lv' = [lv EXCEPT ![p].s = FreshHandle]
    /\ Goto(p, "os_write")
    /\ UNCHANGED <<conn, ret, hist>>

\* m.writeWS(ctx, OPEN_STREAM frame) (mux.go:102-103)
OsWrite(p) ==
    /\ pc[p] = "os_write"
    /\ writeWS(p, EncodeFrame(Frame(FrameOpenStream, lv[p].id, <<>>)),
               "returned", Ret(0, "nil"), "os_remove", ret[p])
    /\ UNCHANGED <<conn, st, lv>>

\* an OpenStream that returns the error and leaves its stream registered
OsNoRemove(p) ==
    /\ pc[p] = "os_remove"
    /\ Goto(p, "returned")
    /\ ret' = [ret EXCEPT ![p] = Ret(0, "ErrMuxClosed")]
    /\ UNCHANGED <<m, conn, st, lv, hist>>

\* m.removeStream(id); return nil, err (mux.go:104-105)
OsRemove(p) ==
    /\ pc[p] = "os_remove"
    /\ removeStream(lv[p].id)
    /\ Goto(p, "returned")
    /\ ret' = [ret EXCEPT ![p] = Ret(0, "ErrMuxClosed")]
    /\ UNCHANGED <<conn, st, lv, hist>>

OpenStream(p) == OsCheck(p) \/ OsAlloc(p) \/ OsRegister(p) \/ OsWrite(p) \/ OsRemove(p)

\* The streams the program's users hold: returned by OpenStream or AcceptStream.
Returned(s) ==
    \E q \in Openers \cup Acceptors :
        pc[q] = "returned" /\ ret[q].err = "nil" /\ lv[q].s = s

(***************************************************************************)
(* Stream.Close (stream.go:110-118) with the Mux's close callback          *)
(* (mux.go:313-319): the Once's body closes s.closed, enqueues             *)
(* CLOSE_STREAM through writeWS and removes the registry entry.            *)
(***************************************************************************)
\* a Close without the Once: every call runs the close callback
ScNoOnce(p, s) ==
    /\ st[s].closeOnce # "running"
    /\ st' = [st EXCEPT ![s].closeOnce = "running", ![s].closed = TRUE]
    /\ hist' = [hist EXCEPT !.trigger[s] = IF @ # "none" THEN @
                                           ELSE IF m.closed THEN "local, mux closed"
                                           ELSE "local, mux open"]
    /\ Goto(p, "sc_write")
    /\ UNCHANGED <<ret, m, conn>>

\* s.closeOnce.Do(func() { close(s.closed) ...
ScOnce(p, s) ==
    /\ \/ /\ st[s].closeOnce = "idle"
          /\ st' = [st EXCEPT ![s].closeOnce = "running", ![s].closed = TRUE]
          /\ hist' = [hist EXCEPT !.trigger[s] = IF m.closed THEN "local, mux closed"
                                                   ELSE "local, mux open"]
          /\ Goto(p, "sc_write")
          /\ UNCHANGED ret
       \/ /\ st[s].closeOnce = "done"
          /\ Goto(p, "returned")
          /\ ret' = [ret EXCEPT ![p] = Ret(0, "nil")]
          /\ UNCHANGED <<st, hist>>
    /\ UNCHANGED <<m, conn>>

\* a user calls Close on a stream it holds
ScCall(p) ==
    /\ pc[p] = "idle"
    /\ \E s \in Handles :
          /\ Returned(s)
          /\ lv' = [lv EXCEPT ![p].s = s]
    /\ Goto(p, "sc_once")
    /\ UNCHANGED <<m, conn, st, ret, hist>>

ScEnter(p) ==
    /\ pc[p] = "sc_once"
    /\ ScOnce(p, lv[p].s)
    /\ UNCHANGED lv

\* closeFn: _ = m.writeWS(ctx, CLOSE_STREAM frame)
ScWrite(p) ==
    /\ pc[p] = "sc_write"
    /\ writeWS(p, EncodeFrame(Frame(FrameCloseStream, st[lv[p].s].ID, <<>>)),
               "sc_remove", ret[p], "sc_remove", ret[p])
    /\ UNCHANGED <<conn, st, lv>>

\* closeFn: m.removeStream(id); the Once's body returns; return nil
ScRemove(p) ==
    /\ pc[p] = "sc_remove"
    /\ removeStream(st[lv[p].s].ID)
    /\ st' = [st EXCEPT ![lv[p].s].closeOnce = "done"]
    /\ Goto(p, "returned")
    /\ ret' = [ret EXCEPT ![p] = Ret(0, "nil")]
    /\ UNCHANGED <<conn, lv, hist>>

StreamClose(p) == ScCall(p) \/ ScEnter(p) \/ ScWrite(p) \/ ScRemove(p)

(***************************************************************************)
(* Stream.Write (stream.go:83-107) with the Mux's write callback           *)
(* (mux.go:301-311)                                                        *)
(***************************************************************************)
\* a user calls Write(payload) on a stream it holds: the first check of s.closed
SwCheck(p, payloads) ==
    /\ pc[p] = "idle"
    /\ \E s \in Handles, data \in payloads :
          /\ Returned(s)
          /\ lv' = [lv EXCEPT ![p].s = s, ![p].data = data]
          /\ hist' = [hist EXCEPT !.writeOnClosed = st[s].closed]
          /\ IF st[s].closed
             THEN /\ Goto(p, "returned")
                  /\ ret' = [ret EXCEPT ![p] = Ret(0, "ErrStreamClosed")]
             ELSE /\ Goto(p, "sw_lock")
                  /\ UNCHANGED ret
    /\ UNCHANGED <<m, conn, st>>

\* a Write that does not wait for s.wrMu
SwLockFree(p) ==
    /\ pc[p] = "sw_lock"
    /\ IF st[lv[p].s].closed
       THEN /\ Goto(p, "returned")
            /\ ret' = [ret EXCEPT ![p] = Ret(0, "ErrStreamClosed")]
            /\ UNCHANGED st
       ELSE /\ st' = [st EXCEPT ![lv[p].s].wrMu = p]
            /\ Goto(p, "sw_fn")
            /\ UNCHANGED ret
    /\ hist' = [hist EXCEPT !.wrLocks = Append(@, p)]
    /\ UNCHANGED <<m, conn, lv>>

\* s.wrMu.Lock() and the second check of s.closed
SwLock(p) ==
    /\ pc[p] = "sw_lock"
    /\ st[lv[p].s].wrMu = "none"
    /\ IF st[lv[p].s].closed
       THEN /\ Goto(p, "returned")
            /\ ret' = [ret EXCEPT ![p] = Ret(0, "ErrStreamClosed")]
            /\ UNCHANGED st
       ELSE /\ st' = [st EXCEPT ![lv[p].s].wrMu = p]
            /\ Goto(p, "sw_fn")
            /\ UNCHANGED ret
    /\ hist' = [hist EXCEPT !.wrLocks = Append(@, p)]
    /\ UNCHANGED <<m, conn, lv>>

\* writeFn: select { case <-m.closed: return ErrMuxClosed; default: }
SwFn(p) ==
    /\ pc[p] = "sw_fn"
    /\ IF m.closed
       THEN /\ Goto(p, "sw_unlock")
            /\ ret' = [ret EXCEPT ![p] = Ret(0, "ErrMuxClosed")]
       ELSE /\ Goto(p, "sw_ws")
            /\ UNCHANGED ret
    /\ UNCHANGED <<m, conn, st, lv, hist>>

\* a Write that reports one byte less than it was given
SwWsShort(p) ==
    /\ pc[p] = "sw_ws"
    /\ writeWS(p, EncodeFrame(Frame(FrameData, st[lv[p].s].ID, lv[p].data)),
               "sw_unlock", Ret(Len(lv[p].data) - 1, "nil"),
               "sw_unlock", Ret(0, "ErrMuxClosed"))
    /\ UNCHANGED <<conn, st, lv>>

\* writeFn: m.writeWS(ctx, DATA frame)
SwWs(p) ==
    /\ pc[p] = "sw_ws"
    /\ writeWS(p, EncodeFrame(Frame(FrameData, st[lv[p].s].ID, lv[p].data)),
               "sw_unlock", Ret(Len(lv[p].data), "nil"),
               "sw_unlock", Ret(0, "ErrMuxClosed"))
    /\ UNCHANGED <<conn, st, lv>>

\* defer s.wrMu.Unlock()
SwUnlock(p) ==
    /\ pc[p] = "sw_unlock"
    /\ st' = [st EXCEPT ![lv[p].s].wrMu = "none"]
    /\ Goto(p, "returned")
    /\ UNCHANGED <<m, conn, lv, ret, hist>>

StreamWrite(p, payloads) == SwCheck(p, payloads) \/ SwLock(p) \/ SwFn(p) \/ SwWs(p) \/ SwUnlock(p)

(***************************************************************************)
(* Stream.Read (stream.go:44-80)                                           *)
(***************************************************************************)
Min(a, b) == IF a < b THEN a ELSE b

\* a Read that drops what does not fit the caller's buffer
DeliverNoReadBuf(p, s, data, rest) ==
    LET n == Min(lv[p].len, Len(data))
    IN  /\ st' = [st EXCEPT ![s].dataCh = rest]
        /\ hist' = [hist EXCEPT !.got[s] = @ \o SubSeq(data, 1, n),
                                !.reads[s] = Append(@, Ret(n, "nil"))]
        /\ ret' = [ret EXCEPT ![p] = Ret(n, "nil")]

\* a Read that takes an empty chunk for the end of the stream
DeliverEmptyEOF(p, s, data, rest) ==
    LET n == Min(lv[p].len, Len(data))
    IN  /\ st' = [st EXCEPT ![s].dataCh = rest,
                            ![s].readBuf = IF n < Len(data)
                                           THEN SubSeq(data, n + 1, Len(data))
                                           ELSE st[s].readBuf]
        /\ hist' = [hist EXCEPT !.got[s] = @ \o SubSeq(data, 1, n),
                                !.reads[s] = Append(@, Ret(n, IF data = <<>> THEN "EOF" ELSE "nil"))]
        /\ ret' = [ret EXCEPT ![p] = Ret(n, IF data = <<>> THEN "EOF" ELSE "nil")]

\* n := copy(p, data); if n < len(data) { s.readBuf = data[n:] }; return n, nil
Deliver(p, s, data, rest) ==
    LET n == Min(lv[p].len, Len(data))
    IN  /\ st' = [st EXCEPT ![s].dataCh = rest,
                            ![s].readBuf = IF n < Len(data)
                                           THEN SubSeq(data, n + 1, Len(data))
                                           ELSE st[s].readBuf]
        /\ hist' = [hist EXCEPT !.got[s] = @ \o SubSeq(data, 1, n),
                                !.reads[s] = Append(@, Ret(n, "nil"))]
        /\ ret' = [ret EXCEPT ![p] = Ret(n, "nil")]

EndOfStream(p, s) ==
    /\ hist' = [hist EXCEPT !.reads[s] = Append(@, Ret(0, "EOF"))]
    /\ ret' = [ret EXCEPT ![p] = Ret(0, "EOF")]
    /\ UNCHANGED st

\* a user calls Read with a buffer of len bytes on stream s
SrCall(p, s, len) ==
    /\ pc[p] \in {"idle", "returned"}
    /\ Returned(s)
    /\ Len(hist.reads[s]) < MaxReads
    /\ lv' = [lv EXCEPT ![p].s = s, ![p].len = len]
    /\ ret' = [ret EXCEPT ![p] = Pending]
    /\ Goto(p, "sr_buf")
    /\ UNCHANGED <<m, conn, st, hist>>

\* if len(s.readBuf) > 0 { n := copy(p, s.readBuf); s.readBuf = s.readBuf[n:]; return n, nil }
SrBuf(p) ==
    /\ pc[p] = "sr_buf"
    /\ LET s == lv[p].s
           n == Min(lv[p].len, Len(st[s].readBuf))
       IN  IF Len(st[s].readBuf) > 0
           THEN /\ st' = [st EXCEPT ![s].readBuf = SubSeq(@, n + 1, Len(@))]
                /\ hist' = [hist EXCEPT !.got[s] = @ \o SubSeq(st[s].readBuf, 1, n),
                                        !.reads[s] = Append(@, Ret(n, "nil"))]
                /\ ret' = [ret EXCEPT ![p] = Ret(n, "nil")]
                /\ Goto(p, "returned")
           ELSE /\ Goto(p, "sr_select")
                /\ UNCHANGED <<st, hist, ret>>
    /\ UNCHANGED <<m, conn, lv>>

\* select { case data, ok := <-s.dataCh: ... case <-s.closed: ... }
SrSelect(p) ==
    /\ pc[p] = "sr_select"
    /\ LET s == lv[p].s
       IN  \/ /\ st[s].dataCh # <<>>
              /\ Deliver(p, s, Head(st[s].dataCh), Tail(st[s].dataCh))
              /\ Goto(p, "returned")
           \/ /\ st[s].closed
              /\ Goto(p, "sr_drain")
              /\ UNCHANGED <<st, hist, ret>>
    /\ UNCHANGED <<m, conn, lv>>

\* a Read that returns io.EOF as soon as it sees s.closed
SrNoDrain(p) ==
    /\ pc[p] = "sr_drain"
    /\ EndOfStream(p, lv[p].s)
    /\ Goto(p, "returned")
    /\ UNCHANGED <<m, conn, lv>>

\* the inner select (stream.go:65-77): the next payload if one is queued, else io.EOF
SrDrain(p) ==
    /\ pc[p] = "sr_drain"
    /\ LET s == lv[p].s
       IN  IF st[s].dataCh # <<>>
           THEN Deliver(p, s, Head(st[s].dataCh), Tail(st[s].dataCh))
           ELSE EndOfStream(p, s)
    /\ Goto(p, "returned")
    /\ UNCHANGED <<m, conn, lv>>

StreamRead(p) == SrBuf(p) \/ SrSelect(p) \/ SrDrain(p)

(***************************************************************************)
(* The state after NewMux: readLoop and writeLoop are started, no API call *)
(* has been made, the peer may still send inbound messages.                *)
(***************************************************************************)
InitMux(isServer, inbound) ==
    /\ m = NewMux(isServer)
    /\ conn = [NewConn EXCEPT !.inLeft = inbound]
    /\ st = [s \in Handles |-> NoStream]
    /\ pc = [p \in Procs |-> IF p = Reader THEN "r_read"
                             ELSE IF p = Writer THEN "w_recv" ELSE "idle"]
    /\ lv = [p \in Procs |-> NoLocals]
    /\ ret = [p \in Procs |-> Pending]
    /\ hist = NoHist

MuxClose(p) == CloseCall(p) \/ shutdown(p) \/ CloseWaitDone(p)

AcceptStream(p) == AcceptCall(p) \/ AsSelect(p)

(***************************************************************************)
(* Spec: the life of one client Mux whose peer sends PING frames: two      *)
(* callers of Close, a caller of OpenStream, a caller blocked in           *)
(* AcceptStream, the reader, the writer, and the loss of the transport.    *)
(***************************************************************************)
LifeMsgs == {EncodeFrame(Frame(FramePing, U32(0), <<>>))}

LifeCalls ==
    \/ \E p \in Closers : CloseCall(p)
    \/ \E p \in {"open1"} : OsCheck(p)
    \/ \E p \in Acceptors : AcceptCall(p)

LifeSteps ==
    \/ RReadErr \/ RCheck \/ handlePing \/ RExit \/ shutdown(Reader)
    \/ writeLoop
    \/ \E p \in Closers : shutdown(p) \/ CloseWaitDone(p)
    \/ \E p \in {"open1"} : OsAlloc(p) \/ OsRegister(p) \/ OsWrite(p) \/ OsRemove(p)
    \/ \E p \in Acceptors : AsSelect(p)

Init == InitMux(FALSE, MaxInbound)

Next == LifeCalls \/ LifeSteps \/ RReadMsg(LifeMsgs) \/ TransportLoss

Spec == Init /\ [][Next]_vars

\* Every goroutine that can take a step eventually takes one (the Go scheduler);
\* calls, inbound messages and the loss of the transport are up to the environment.
FairSpec == Spec /\ WF_vars(LifeSteps)

(***************************************************************************)
(* Claims about shutdown.                                                  *)
(***************************************************************************)
CloseCalled(p) == pc[p] # "idle"

CloseReturned(p) == pc[p] = "returned"

\* C1: every call of Mux.Close eventually returns, and when it has returned the
\* writer task has exited, the transport is closed and Done() has fired.
C1_CloseReturns ==
    \A p \in Closers :
        CloseCalled(p) ~> (CloseReturned(p) /\ m.writeDone /\ conn.closed /\ m.done)

\* C2: after a transport write has failed in the writer task, the mux-closed signal
\* is set, the writer-done signal is raised, the transport is closed and Done() fires.
C2_WriteErrorShutsDown ==
    hist.writeFailed ~> (m.closed /\ m.writeDone /\ conn.closed /\ m.done)

\* C3: after a transport read has failed the reader task exits and Done() fires.
C3_ReadErrorFiresDone == hist.readFailed ~> m.done

\* C4: the shutdown body runs at most once, m.closed, acceptCh and writeCh are each
\* closed at most once, and every Close call that has returned returned nil.
C4_ShutdownOnce ==
    /\ hist.bodies <= 1
    /\ hist.nClosed <= 1
    /\ hist.nAcceptCh <= 1
    /\ hist.nWriteCh <= 1
    /\ \A p \in Closers : CloseReturned(p) => ret[p].err = "nil"

\* C4 witness: both Close calls have returned after a failed read had triggered
\* the shutdown as well, and the body has run.
C4_Witness ==
    /\ \A p \in Closers : CloseReturned(p)
    /\ hist.readFailed
    /\ hist.bodies = 1
    /\ hist.nClosed = 1 /\ hist.nAcceptCh = 1 /\ hist.nWriteCh = 1

AcceptBlocked(p) == pc[p] = "as_select" /\ m.acceptCh = <<>>

\* C6: an AcceptStream call blocked on the empty accept queue returns ErrMuxClosed
\* once Mux.Close has been called.
C6_AcceptUnblocks ==
    \A a \in Acceptors :
        (AcceptBlocked(a) /\ \E c \in Closers : CloseCalled(c))
            ~> (pc[a] = "returned" /\ ret[a].err = "ErrMuxClosed")

\* C6 witness: the call blocked while the mux was open, then Close was called and the
\* call returned ErrMuxClosed.
C6_Witness ==
    \E a \in Acceptors :
        /\ pc[a] = "returned" /\ ret[a].err = "ErrMuxClosed"
        /\ hist.blockedOpen
        /\ \E c \in Closers : CloseCalled(c)

(***************************************************************************)
(* SpecClose: teardown of one stream.  A user opens stream 1; two users    *)
(* call Close on it, the peer may send CLOSE_STREAM for it, and a caller   *)
(* of Mux.Close shuts the mux down.                                        *)
(***************************************************************************)
CloseMsgs == { EncodeFrame(Frame(FrameCloseStream, U32(1), <<>>)) }

CloseCalls ==
    \/ \E p \in {"close1"} : CloseCall(p)
    \/ \E p \in {"open1"} : OsCheck(p)
    \/ \E p \in SClosers : ScCall(p)

CloseSteps ==
    \/ RReadErr \/ RCheck \/ RExit \/ shutdown(Reader)
    \/ HcLookup \/ HcCloseRead \/ HcRemove
    \/ writeLoop
    \/ \E p \in {"close1"} : shutdown(p) \/ CloseWaitDone(p)
    \/ \E p \in {"open1"} : OsAlloc(p) \/ OsRegister(p) \/ OsWrite(p) \/ OsRemove(p)
    \/ \E p \in SClosers : ScEnter(p) \/ ScWrite(p) \/ ScRemove(p)

InitClose == InitMux(FALSE, CloseInbound)

NextClose == CloseCalls \/ CloseSteps \/ RReadMsg(CloseMsgs) \/ TransportLoss

SpecClose == InitClose /\ [][NextClose]_vars

(***************************************************************************)
(* SpecOpen: streams being opened while the mux shuts down.  A user calls  *)
(* OpenStream, the peer sends OPEN_STREAM for stream 2, a user calls       *)
(* AcceptStream; a caller of Mux.Close or the loss of the transport shuts  *)
(* the mux down.                                                           *)
(***************************************************************************)
OpenMsgs == { EncodeFrame(Frame(FrameOpenStream, U32(2), <<>>)) }

OpenCalls ==
    \/ \E p \in {"close1"} : CloseCall(p)
    \/ \E p \in {"open1"} : OsCheck(p)
    \/ \E p \in Acceptors : AcceptCall(p)

OpenSteps ==
    \/ RReadErr \/ RCheck \/ RExit \/ shutdown(Reader)
    \/ HoRegister \/ HoEnqueue
    \/ writeLoop
    \/ \E p \in {"close1"} : shutdown(p) \/ CloseWaitDone(p)
    \/ \E p \in {"open1"} : OsAlloc(p) \/ OsRegister(p) \/ OsWrite(p) \/ OsRemove(p)
    \/ \E p \in Acceptors : AsSelect(p)

InitOpen == InitMux(FALSE, OpenInbound)

NextOpen == OpenCalls \/ OpenSteps \/ RReadMsg(OpenMsgs) \/ TransportLoss

SpecOpen == InitOpen /\ [][NextOpen]_vars

(***************************************************************************)
(* Claims about stream teardown.                                           *)
(***************************************************************************)
IsFrame(data, t, id) == data[1] = t /\ Uint32(SubSeq(data, 2, 5)) = id

\* the number of CLOSE_STREAM frames for id enqueued on writeCh so far
CloseFrames(id) ==
    Cardinality({i \in 1..Len(hist.enq) : IsFrame(hist.enq[i], FrameCloseStream, id)})

\* C5 (as claimed): every local Close returns nil; at most one CLOSE_STREAM frame per
\* stream is enqueued: exactly one if the first trigger of the teardown is a local
\* Close on an open mux, none if it is a received CLOSE_STREAM or the shutdown.
C5_Claimed ==
    /\ \A p \in SClosers : pc[p] = "returned" => ret[p].err = "nil"
    /\ \A s \in Handles : st[s].alloc =>
          /\ CloseFrames(st[s].ID) <= 1
          /\ (hist.trigger[s] = "local, mux open" /\ st[s].closeOnce = "done")
                => CloseFrames(st[s].ID) = 1
          /\ hist.trigger[s] \in {"remote", "shutdown"} => CloseFrames(st[s].ID) = 0

\* C5 (amended): every local Close returns nil; at most one CLOSE_STREAM frame per
\* stream is enqueued: exactly one if the first trigger of the teardown is a local
\* Close that completes while the mux is still open, none if it is a received
\* CLOSE_STREAM or the shutdown.
C5_OneCloseFrame ==
    /\ \A p \in SClosers : pc[p] = "returned" => ret[p].err = "nil"
    /\ \A s \in Handles : st[s].alloc =>
          /\ CloseFrames(st[s].ID) <= 1
          /\ (hist.trigger[s] = "local, mux open" /\ st[s].closeOnce = "done" /\ ~m.closed)
                => CloseFrames(st[s].ID) = 1
          /\ hist.trigger[s] \in {"remote", "shutdown"} => CloseFrames(st[s].ID) = 0

\* C5 witness: both users' Close calls on the stream have returned, the first of them
\* tore the stream down on the open mux, and one CLOSE_STREAM frame was enqueued.
C5_Witness ==
    /\ \A p \in SClosers : pc[p] = "returned" /\ ret[p].err = "nil"
    /\ \E s \in Handles :
          /\ st[s].alloc /\ st[s].closeOnce = "done"
          /\ hist.trigger[s] = "local, mux open"
          /\ ~m.closed
          /\ CloseFrames(st[s].ID) = 1

\* C7 (as claimed, in the form a finite run refutes): once the shutdown has completed,
\* every stream that OpenStream or AcceptStream has returned is closed.
C7_ReturnedStreamsClosed ==
    m.once = "done" => \A s \in Handles : Returned(s) => st[s].closed

(***************************************************************************)
(* SpecPeer: the peer opens stream 2, sends DATA frames on it and closes   *)
(* it, in any order; a user accepts the stream and reads it with buffers   *)
(* of 1..MaxBuf bytes.                                                     *)
(***************************************************************************)
PeerPayloads == { <<1, 2, 3>>, <<4>> }

PeerMsgs ==
    { EncodeFrame(Frame(FrameOpenStream, U32(2), <<>>)),
      EncodeFrame(Frame(FrameCloseStream, U32(2), <<>>)) }
    \cup { EncodeFrame(Frame(FrameData, U32(2), d)) : d \in PeerPayloads }

PeerCalls ==
    \/ \E p \in Acceptors : AcceptCall(p)
    \/ \E p \in SReaders, s \in Handles, len \in 1..MaxBuf : SrCall(p, s, len)

PeerSteps ==
    \/ RCheck \/ HoRegister \/ HoEnqueue \/ HdLookup \/ HdPush
    \/ HcLookup \/ HcCloseRead \/ HcRemove
    \/ \E p \in Acceptors : AsSelect(p)
    \/ \E p \in SReaders : StreamRead(p)

InitPeer == InitMux(FALSE, PeerInbound)

NextPeer == PeerCalls \/ PeerSteps \/ RReadMsg(PeerMsgs)

SpecPeer == InitPeer /\ [][NextPeer]_vars

\* Every goroutine that can take a step eventually takes one.
FairSpecPeer == SpecPeer /\ WF_vars(PeerSteps)

(***************************************************************************)
(* SpecIDs: three concurrent callers of OpenStream on a fresh Mux of       *)
(* either role, the writer draining the outbound queue.                    *)
(***************************************************************************)
IDSteps ==
    \/ \E p \in Openers : OsCheck(p) \/ OsAlloc(p) \/ OsRegister(p) \/ OsWrite(p)
    \/ WRecv \/ WWrite

InitIDs == \E isServer \in BOOLEAN : InitMux(isServer, 0)

SpecIDs == InitIDs /\ [][IDSteps]_vars

(***************************************************************************)
(* Claims about Read and about stream IDs.                                 *)
(***************************************************************************)
RECURSIVE Concat(_)
Concat(seqs) == IF seqs = <<>> THEN <<>> ELSE Head(seqs) \o Concat(Tail(seqs))

\* C8: the bytes Read has returned, followed by the leftover buffer and the payloads
\* still queued, are the payloads delivered to the stream, in their order of arrival.
C8_ReadOrder ==
    \A s \in Handles :
        Concat(hist.pushed[s]) = hist.got[s] \o st[s].readBuf \o Concat(st[s].dataCh)

\* C8 witness: a 3-byte payload was read with a 2-byte buffer, its rest came from the
\* leftover buffer, then the next payload followed.
C8_Witness ==
    \E s \in Handles :
        /\ hist.pushed[s] = << <<1, 2, 3>>, <<4>> >>
        /\ hist.got[s] = <<1, 2, 3, 4>>
        /\ hist.reads[s] = << Ret(2, "nil"), Ret(1, "nil"), Ret(1, "nil") >>

IsEOF(r) == r.err = "EOF"

\* C9: on a stream the peer has closed, Read returns end-of-stream only after every
\* payload received before the CLOSE_STREAM frame, in order, and once it has returned
\* end-of-stream every later Read returns end-of-stream (C9_Safety); a Read pending on
\* such a stream returns.
C9_Safety ==
    \A s \in Handles : hist.trigger[s] = "remote" =>
        LET reads == hist.reads[s]
        IN  /\ \A i, j \in 1..Len(reads) : (i < j /\ IsEOF(reads[i])) => IsEOF(reads[j])
            /\ (\E i \in 1..Len(reads) : IsEOF(reads[i]))
                  => hist.got[s] = Concat(hist.recv[s])
            /\ \E k \in 0..Len(Concat(hist.recv[s])) :
                  hist.got[s] = SubSeq(Concat(hist.recv[s]), 1, k)

InRead(p) == pc[p] \in {"sr_buf", "sr_select", "sr_drain"}

C9_EOFAfterData ==
    /\ []C9_Safety
    /\ \A p \in SReaders :
          (InRead(p) /\ hist.trigger[lv[p].s] = "remote") ~> (pc[p] = "returned")

\* C9 witness: the payload received before CLOSE_STREAM was read, then two Reads
\* returned end-of-stream.
C9_Witness ==
    \E s \in Handles :
        /\ hist.trigger[s] = "remote"
        /\ hist.recv[s] = << <<4>> >>
        /\ hist.reads[s] = << Ret(1, "nil"), Ret(0, "EOF"), Ret(0, "EOF") >>

FirstID == IF m.isServer THEN 2 ELSE 1

\* C10: the i-th ID OpenStream allocates is 1 + 2(i-1) on the client mux and
\* 2 + 2(i-1) on the server mux (so odd respectively even), and concurrent calls hold
\* pairwise distinct IDs.
C10_StreamIDs ==
    /\ \A i \in 1..Len(hist.allocs) :
          /\ hist.allocs[i] = U32(FirstID + 2 * (i - 1))
          /\ hist.allocs[i].lo % 2 = FirstID % 2
    /\ \A p, q \in Openers :
          (p # q /\ pc[p] \notin {"idle", "os_alloc"} /\ pc[q] \notin {"idle", "os_alloc"})
          => lv[p].id # lv[q].id
    /\ \A p \in Openers :
          (pc[p] = "returned" /\ ret[p].err = "nil") => st[lv[p].s].ID = lv[p].id

\* C10 witness: three OpenStream calls have returned streams on the server mux.
C10_Witness ==
    /\ m.isServer
    /\ \A p \in Openers : pc[p] = "returned" /\ ret[p].err = "nil"
    /\ hist.allocs = << U32(2), U32(4), U32(6) >>

(***************************************************************************)
(* SpecWrap: a Mux of either role on which OpenStream has already been     *)
(* called some number of times (every earlier stream closed again), down   *)
(* to the calls at which the uint32 counter m.nextID wraps.                *)
(***************************************************************************)
\* the numbers of earlier OpenStream calls considered: none, and 2^31 - 2 and 2^31 - 1
EarlierOpens == {0, 2147483646, 2147483647}

\* m.nextID after n executions of m.nextID += 2 (mux.go:93) from NewMux's value
AfterOpens(isServer, n) ==
    LET l == (n % 65536) * 2
        twice == [hi |-> ((n \div 65536) * 2 + l \div 65536) % 65536, lo |-> l % 65536]
    IN  Add32(twice, IF isServer THEN 2 ELSE 1)

InitWrap ==
    \E isServer \in BOOLEAN, n \in EarlierOpens :
        /\ m = [NewMux(isServer) EXCEPT !.nextID = AfterOpens(isServer, n)]
        /\ conn = [NewConn EXCEPT !.inLeft = 0]
        /\ st = [s \in Handles |-> NoStream]
        /\ pc = [p \in Procs |-> IF p = Reader THEN "r_read"
                                 ELSE IF p = Writer THEN "w_recv" ELSE "idle"]
        /\ lv = [p \in Procs |-> NoLocals]
        /\ ret = [p \in Procs |-> Pending]
        /\ hist = NoHist

SpecWrap == InitWrap /\ [][IDSteps]_vars

\* C11: OpenStream never allocates stream ID 0, whatever the role and however many
\* OpenStream calls came before (m.nextID is a uint32 and wraps modulo 2^32).
C11_NeverZero == \A i \in DOMAIN hist.allocs : hist.allocs[i] # U32(0)

(***************************************************************************)
(* SpecPair: a connected pair.  The remote (server) Mux runs concurrent    *)
(* OpenStream calls and its writeLoop; its frames travel over the wire in  *)
(* the order written; the local (client) Mux reads them, registers the     *)
(* streams and hands them to a caller that keeps calling AcceptStream.     *)
(***************************************************************************)
\* remote OpenStream (mux.go:87-94): id := m.nextID; m.nextID += 2
RoAlloc(q) ==
    /\ conn.remote.pc[q] = "idle"
    /\ conn' = [conn EXCEPT !.remote.id[q] = conn.remote.nextID,
                            !.remote.nextID = Add32(@, 2),
                            !.remote.pc[q] = "os_write"]
    /\ UNCHANGED <<m, st, pc, lv, ret, hist>>

\* remote OpenStream (mux.go:102-108): writeWS enqueues OPEN_STREAM; return s, nil
RoWrite(q) ==
    /\ conn.remote.pc[q] = "os_write"
    /\ Len(conn.remote.writeCh) < WriteChCap
    /\ conn' = [conn EXCEPT
                  !.remote.writeCh =
                      Append(@, EncodeFrame(Frame(FrameOpenStream, conn.remote.id[q], <<>>))),
                  !.remote.opened = Append(@, conn.remote.id[q]),
                  !.remote.pc[q] = "returned"]
    /\ UNCHANGED <<m, st, pc, lv, ret, hist>>

\* remote writeLoop (mux.go:275-276): the next queued frame goes onto the wire
RwWrite ==
    /\ conn.remote.writeCh # <<>>
    /\ conn' = [conn EXCEPT !.wire = Append(@, Head(conn.remote.writeCh)),
                            !.remote.writeCh = Tail(@)]
    /\ UNCHANGED <<m, st, pc, lv, ret, hist>>

\* m.conn.Read returns the next message on the wire
RReadWire ==
    /\ pc[Reader] = "r_read"
    /\ ~conn.broken /\ ~conn.closed
    /\ conn.wire # <<>>
    /\ Head(conn.wire)[1] = FrameOpenStream => FreshHandle # 0
    /\ lv' = [lv EXCEPT ![Reader].data = Head(conn.wire)]
    /\ conn' = [conn EXCEPT !.wire = Tail(@)]
    /\ Goto(Reader, "r_check")
    /\ UNCHANGED <<m, st, ret, hist>>

\* the caller calls AcceptStream again after a call has returned
AcceptRecall(p) ==
    /\ pc[p] = "returned"
    /\ Goto(p, "as_select")
    /\ ret' = [ret EXCEPT ![p] = Pending]
    /\ UNCHANGED <<m, conn, st, lv, hist>>

PairAccepts == \E p \in Acceptors : AcceptCall(p) \/ AcceptRecall(p)

PairSteps ==
    \/ \E q \in RemoteOpeners : RoWrite(q)
    \/ RwWrite \/ RReadWire
    \/ RCheck \/ HoRegister \/ HoEnqueue
    \/ \E p \in Acceptors : AsSelect(p)

InitPair == InitMux(FALSE, 0)

NextPair == (\E q \in RemoteOpeners : RoAlloc(q)) \/ PairAccepts \/ PairSteps

SpecPair == InitPair /\ [][NextPair]_vars

\* Every goroutine of either end that can take a step eventually takes one, and the
\* accepting side keeps calling AcceptStream.
FairSpecPair == SpecPair /\ WF_vars(PairSteps) /\ WF_vars(PairAccepts)

IsPrefix(a, b) == Len(a) <= Len(b) /\ a = SubSeq(b, 1, Len(a))

\* the IDs of the streams AcceptStream has handed out, in order
AcceptedIDs == [i \in 1..Len(hist.accepted) |-> st[hist.accepted[i]].ID]

C12_Safety ==
    /\ IsPrefix(AcceptedIDs, conn.remote.opened)
    /\ \A i, j \in 1..Len(hist.accepted) : i # j => hist.accepted[i] # hist.accepted[j]

CapN == 1

\* SetMaxStreams (mux.go:73-77) on the Mux mx
SetMaxStreams(mx, n) == [mx EXCEPT !.maxStreams = n]

InitCap ==
    /\ m = SetMaxStreams(NewMux(FALSE), CapN)
    /\ conn = [NewConn EXCEPT !.inLeft = 0]
    /\ st = [s \in Handles |-> NoStream]
    /\ pc = [p \in Procs |-> IF p = Reader THEN "r_read"
                             ELSE IF p = Writer THEN "w_recv" ELSE "idle"]
    /\ lv = [p \in Procs |-> NoLocals]
    /\ ret = [p \in Procs |-> Pending]
    /\ hist = NoHist

SpecCap == InitCap /\ [][IDSteps]_vars

\* C13: with max_streams = N > 0 the registry never holds more than N streams opened
\* by OpenStream, whatever the interleaving of concurrent OpenStream calls.
C13_NoOvershoot ==
    m.maxStreams > 0 => Cardinality(DOMAIN m.streams) <= m.maxStreams

(***************************************************************************)
(* SpecAdmit: a client Mux with SetMaxStreams(CapN) that stays open: a     *)
(* caller of OpenStream, a peer that sends OPEN_STREAM frames, a caller    *)
(* that keeps calling AcceptStream, the reader and the writer.             *)
(***************************************************************************)
AdmitInbound == 2

AdmitMsgs ==
    { EncodeFrame(Frame(FrameOpenStream, U32(2), <<>>)),
      EncodeFrame(Frame(FrameOpenStream, U32(4), <<>>)) }

AdmitCalls ==
    \/ \E p \in {"open1"} : OsCheck(p)
    \/ PairAccepts

AdmitSteps ==
    \/ \E p \in {"open1"} : OsAlloc(p) \/ OsRegister(p) \/ OsWrite(p)
    \/ WRecv \/ WWrite
    \/ RCheck \/ HoRegister \/ HoEnqueue
    \/ \E p \in Acceptors : AsSelect(p)

InitAdmit ==
    /\ m = SetMaxStreams(NewMux(FALSE), CapN)
    /\ conn = [NewConn EXCEPT !.inLeft = AdmitInbound]
    /\ st = [s \in Handles |-> NoStream]
    /\ pc = [p \in Procs |-> IF p = Reader THEN "r_read"
                             ELSE IF p = Writer THEN "w_recv" ELSE "idle"]
    /\ lv = [p \in Procs |-> NoLocals]
    /\ ret = [p \in Procs |-> Pending]
    /\ hist = NoHist

NextAdmit == AdmitCalls \/ AdmitSteps \/ RReadMsg(AdmitMsgs)

SpecAdmit == InitAdmit /\ [][NextAdmit]_vars

\* the streams made by handleOpenStream: the peer's IDs are even, this end's are odd
InboundStreams == {s \in Handles : st[s].alloc /\ st[s].ID.lo % 2 = 0}

\* the OPEN_STREAM frames handleOpenStream has been given and has registered
OpensHandled ==
    (AdmitInbound - conn.inLeft) - (IF pc[Reader] \in {"r_check", "r_open"} THEN 1 ELSE 0)

\* the streams in the accept queue, handed out, or held by the reader for the queue
Offered ==
    Range(m.acceptCh) \cup Range(hist.accepted)
        \cup (IF pc[Reader] = "r_enq" THEN {lv[Reader].s} ELSE {})

\* C14: on an open mux every inbound OPEN_STREAM is registered and offered to
\* AcceptStream, whatever the registry size and the cap.
C14_InboundAdmitted ==
    ~m.closed =>
        /\ Cardinality(InboundStreams) = OpensHandled
        /\ InboundStreams = Offered
        /\ pc[Reader] = "r_enq" =>
              /\ lv[Reader].id \in DOMAIN m.streams
              /\ m.streams[lv[Reader].id] = lv[Reader].s

\* C14 witness: with a cap of CapN and a stream opened locally, two inbound streams
\* were registered beyond the cap and handed out.
C14_Witness ==
    /\ m.maxStreams = CapN
    /\ Cardinality(DOMAIN m.streams) = CapN + 2
    /\ Len(hist.accepted) = 2
    /\ U32(1) \in DOMAIN m.streams

(***************************************************************************)
(* SpecOpenErr: the ways OpenStream fails.  A client Mux with              *)
(* SetMaxStreams(CapN), two callers of OpenStream, a caller of Mux.Close,  *)
(* the loss of the transport, the reader and the writer.                   *)
(***************************************************************************)
OpenErrCalls ==
    \/ \E p \in {"close1"} : CloseCall(p)
    \/ \E p \in {"open1", "open2"} : OsCheck(p)

OpenErrSteps ==
    \/ RReadErr \/ RExit \/ shutdown(Reader)
    \/ writeLoop
    \/ \E p \in {"close1"} : shutdown(p) \/ CloseWaitDone(p)
    \/ \E p \in {"open1", "open2"} : OsAlloc(p) \/ OsRegister(p) \/ OsWrite(p) \/ OsRemove(p)

NextOpenErr == OpenErrCalls \/ OpenErrSteps \/ TransportLoss

SpecOpenErr == InitCap /\ [][NextOpenErr]_vars

\* an OpenStream that has returned an error left no stream of its own in the registry,
\* and made none at all when the error is TooManyStreams
C15_NotRegistered ==
    \A p \in Openers :
        (pc[p] = "returned" /\ ret[p].err # "nil") =>
            /\ lv[p].s # 0 => lv[p].s \notin Range(m.streams)
            /\ ret[p].err = "ErrTooManyStreams" => lv[p].s = 0

\* an OpenStream called on a mux that has shut down returns MuxClosed and changes
\* neither the counter nor the registry nor any stream
C15_ClosedCall ==
    \A p \in Openers :
        (pc[p] = "idle" /\ m.closed /\ pc'[p] # "idle") =>
            /\ pc'[p] = "returned"
            /\ ret'[p].err = "ErrMuxClosed"
            /\ m' = m /\ st' = st /\ hist'.allocs = hist.allocs

\* C15: OpenStream on a mux that has shut down returns MuxClosed without allocating
\* an ID or touching the registry, and whenever OpenStream returns an error the
\* registry does not contain the stream it tried to create.
C15_OpenErrors == []C15_NotRegistered /\ [][C15_ClosedCall]_vars

\* C15 witness: one call registered its stream, failed to enqueue OPEN_STREAM and
\* removed the stream; the other, called after the shutdown, got MuxClosed at once.
C15_Witness ==
    /\ pc["open1"] = "returned" /\ ret["open1"].err = "ErrMuxClosed" /\ lv["open1"].s # 0
    /\ pc["open2"] = "returned" /\ ret["open2"].err = "ErrMuxClosed" /\ lv["open2"].s = 0
    /\ Len(hist.allocs) = 1

(***************************************************************************)
(* SpecWrite: a stream opened by OpenStream, a user writing to it, and the *)
(* three ways it closes: a user's Close, the peer's CLOSE_STREAM, the      *)
(* shutdown of the mux (Mux.Close or the loss of the transport).           *)
(***************************************************************************)
WritePayloads == { <<7>>, <<8, 9>> }

WriteCalls ==
    \/ \E p \in {"close1"} : CloseCall(p)
    \/ \E p \in {"open1"} : OsCheck(p)
    \/ \E p \in {"sclose1"} : ScCall(p)
    \/ \E p \in SWriters : SwCheck(p, WritePayloads)

WriteSteps ==
    \/ RReadErr \/ RCheck \/ RExit \/ shutdown(Reader)
    \/ HcLookup \/ HcCloseRead \/ HcRemove
    \/ writeLoop
    \/ \E p \in {"close1"} : shutdown(p) \/ CloseWaitDone(p)
    \/ \E p \in {"open1"} : OsAlloc(p) \/ OsRegister(p) \/ OsWrite(p) \/ OsRemove(p)
    \/ \E p \in {"sclose1"} : ScEnter(p) \/ ScWrite(p) \/ ScRemove(p)
    \/ \E p \in SWriters : SwLock(p) \/ SwFn(p) \/ SwWs(p) \/ SwUnlock(p)

NextWrite == WriteCalls \/ WriteSteps \/ RReadMsg(CloseMsgs) \/ TransportLoss

SpecWrite == InitClose /\ [][NextWrite]_vars

\* the DATA frames handed to writeWS and enqueued
DataFrames == {i \in 1..Len(hist.enq) : hist.enq[i][1] = FrameData}

\* C16: a Write called on a stream that is already closed returns 0 and StreamClosed
\* and enqueues no DATA frame; a Write that succeeds returns the length of its input
\* and has enqueued that input as one DATA frame.
C16_WriteResult ==
    \A p \in SWriters : pc[p] = "returned" =>
        /\ hist.writeOnClosed =>
              ret[p] = Ret(0, "ErrStreamClosed") /\ DataFrames = {}
        /\ ret[p].err = "nil" =>
              /\ ret[p].n = Len(lv[p].data)
              /\ \E i \in DataFrames :
                    hist.enq[i] = EncodeFrame(Frame(FrameData, st[lv[p].s].ID, lv[p].data))
        /\ ret[p].err # "nil" => ret[p].n = 0 /\ DataFrames = {}

\* C16 witness: a Write on a stream that the shutdown had closed returned StreamClosed.
C16_Witness ==
    \E p \in SWriters :
        /\ pc[p] = "returned" /\ hist.writeOnClosed
        /\ hist.trigger[lv[p].s] = "shutdown"
        /\ ret[p] = Ret(0, "ErrStreamClosed")

(***************************************************************************)
(* SpecPing: a client Mux whose peer sends PING frames (with stream ID 0   *)
(* or not), the reader answering them, the writer transmitting, a caller   *)
(* of OpenStream, and a caller of Mux.Close or the loss of the transport   *)
(* shutting the mux down.                                                  *)
(***************************************************************************)
PingInbound == 2

PingMsgs ==
    { EncodeFrame(Frame(FramePing, U32(0), <<>>)),
      EncodeFrame(Frame(FramePing, U32(7), <<>>)) }

PingCalls ==
    \/ \E p \in {"close1"} : CloseCall(p)
    \/ \E p \in {"open1"} : OsCheck(p)

PingSteps ==
    \/ RReadErr \/ RCheck \/ handlePing \/ RExit \/ shutdown(Reader)
    \/ writeLoop
    \/ \E p \in {"close1"} : shutdown(p) \/ CloseWaitDone(p)
    \/ \E p \in {"open1"} : OsAlloc(p) \/ OsRegister(p) \/ OsWrite(p) \/ OsRemove(p)

InitPing == InitMux(FALSE, PingInbound)

NextPing == PingCalls \/ PingSteps \/ RReadMsg(PingMsgs) \/ TransportLoss

SpecPing == InitPing /\ [][NextPing]_vars

Pong == EncodeFrame(Frame(FramePong, U32(0), <<>>))

\* the PING frames the reader has read and is done with
PingsHandled ==
    (PingInbound - conn.inLeft) - (IF pc[Reader] \in {"r_check", "r_ping"} THEN 1 ELSE 0)

\* the frames of type PONG in a sequence of frames
PongsIn(frames) == Cardinality({i \in 1..Len(frames) : frames[i][1] = FramePong})

\* the reader is about to read or to dispatch its next inbound frame
ReaderAtNext == pc[Reader] \in {"r_read", "r_check"}

\* C17 (as claimed): when the reader turns to its next inbound frame, one PONG has been
\* transmitted for every PING it has handled.
C17_Claimed == ReaderAtNext => PongsIn(conn.sent) = PingsHandled

\* C17 (amended): when the reader turns to its next inbound frame on an open mux, one
\* PONG (stream ID 0, no payload) has been enqueued for every PING it has handled, never
\* more than one per PING; the frames transmitted are the enqueued ones in queue order.
C17_PongEnqueued ==
    /\ PongsIn(hist.enq) <= PingsHandled
    /\ (ReaderAtNext /\ ~m.closed) => PongsIn(hist.enq) = PingsHandled
    /\ \A i \in 1..Len(hist.enq) : hist.enq[i][1] = FramePong => hist.enq[i] = Pong
    /\ IsPrefix(conn.sent, hist.enq)

\* C17 witness: both PINGs were handled on the open mux and two PONGs enqueued, the
\* reader is back at its read, and only one PONG has been transmitted so far.
C17_Witness ==
    /\ pc[Reader] = "r_read" /\ ~m.closed
    /\ PingsHandled = 2 /\ PongsIn(hist.enq) = 2 /\ PongsIn(conn.sent) = 1

(***************************************************************************)
(* SpecStall: a client Mux that stays open.  The peer has opened stream 2, *)
(* sent one DATA frame more for it than its inbound queue holds, then a    *)
(* PING and the OPEN_STREAM of stream 4.  A user may accept the stream and *)
(* may read from it, or may not.                                           *)
(***************************************************************************)
\* what the peer has written, in order
StallWire ==
    << EncodeFrame(Frame(FrameOpenStream, U32(2), <<>>)) >>
    \o [i \in 1..(DataChCap + 1) |-> EncodeFrame(Frame(FrameData, U32(2), <<4>>))]
    \o << EncodeFrame(Frame(FramePing, U32(0), <<>>)),
          EncodeFrame(Frame(FrameOpenStream, U32(4), <<>>)) >>

StallCalls ==
    \/ \E p \in Acceptors : AcceptCall(p)
    \/ \E p \in SReaders, s \in Handles, len \in 1..MaxBuf : SrCall(p, s, len)

StallSteps ==
    \/ RReadWire \/ RCheck \/ HoRegister \/ HoEnqueue \/ HdLookup \/ HdPush \/ handlePing
    \/ WRecv \/ WWrite
    \/ \E p \in Acceptors : AsSelect(p)
    \/ \E p \in SReaders : SrBuf(p) \/ SrSelect(p)

InitStall ==
    /\ m = NewMux(FALSE)
    /\ conn = [NewConn EXCEPT !.inLeft = 0, !.wire = StallWire]
    /\ st = [s \in Handles |-> NoStream]
    /\ pc = [p \in Procs |-> IF p = Reader THEN "r_read"
                             ELSE IF p = Writer THEN "w_recv" ELSE "idle"]
    /\ lv = [p \in Procs |-> NoLocals]
    /\ ret = [p \in Procs |-> Pending]
    /\ hist = NoHist

NextStall == StallCalls \/ StallSteps

SpecStall == InitStall /\ [][NextStall]_vars

\* Every goroutine that can take a step eventually takes one; whether the stream's
\* owner calls AcceptStream or Read is up to the owner.
FairSpecStall == SpecStall /\ WF_vars(StallSteps)

\* C18: on the open mux the PING that follows the DATA frames of the unread stream is
\* answered with a PONG and the OPEN_STREAM of the other stream is dispatched, whether
\* or not the owner of the first stream reads.
C18_ReaderNotStalled ==
    <>(PongsIn(hist.enq) = 1 /\ U32(4) \in DOMAIN m.streams)

(***************************************************************************)
(* SpecCodec: EncodeFrame applied to a valid frame and DecodeFrame applied *)
(* to the bytes it returned.  Frames of every type, stream IDs with each   *)
(* of their four bytes zero, small and 255, payloads of up to              *)
(* MaxPayloadLen bytes.                                                    *)
(***************************************************************************)
MaxPayloadLen == 2

CodecHalves == {0, 1, 255, 256, 258, 772, 65535}

CodecIDs == {[hi |-> h, lo |-> l] : h \in {0, 258, 65535}, l \in CodecHalves}

CodecBytes == {0, 255}

RECURSIVE SeqsUpTo(_, _)
\* the sequences over S of length at most n
SeqsUpTo(S, n) ==
    IF n = 0 THEN { <<>> }
    ELSE SeqsUpTo(S, n - 1)
            \cup { Append(q, x) : q \in {r \in SeqsUpTo(S, n - 1) : Len(r) = n - 1}, x \in S }

CodecFrames ==
    { Frame(t, id, pl) : t \in FrameOpenStream..FramePong, id \in CodecIDs,
                         pl \in SeqsUpTo(CodecBytes, MaxPayloadLen) }

\* the state with the frame f in a caller's hands
InitCoder(f, bytes) ==
    /\ m = NewMux(FALSE)
    /\ conn = [NewConn EXCEPT !.inLeft = 0]
    /\ st = [s \in Handles |-> NoStream]
    /\ pc = [p \in Procs |-> IF p = Reader THEN "r_read"
                             ELSE IF p = Writer THEN "w_recv" ELSE "idle"]
    /\ lv = [p \in Procs |-> IF p \in Coders
                             THEN [NoLocals EXCEPT !.frame = f, !.data = bytes]
                             ELSE NoLocals]
    /\ ret = [p \in Procs |-> Pending]
    /\ hist = NoHist

\* buf := EncodeFrame(f)
CoEncode(p) ==
    /\ pc[p] = "idle"
    /\ lv' = [lv EXCEPT ![p].data = EncodeFrame(lv[p].frame)]
    /\ Goto(p, "encoded")
    /\ UNCHANGED <<m, conn, st, ret, hist>>

\* f, err := DecodeFrame(bytes.NewReader(buf)); ret.n is the number of bytes consumed
CoDecode(p, from, to) ==
    /\ pc[p] = from
    /\ LET r == DecodeFrame(lv[p].data)
       IN  /\ lv' = [lv EXCEPT ![p].out = r.frame]
           /\ ret' = [ret EXCEPT ![p] = Ret(r.consumed, r.err)]
    /\ Goto(p, to)
    /\ UNCHANGED <<m, conn, st, hist>>

InitCodec == \E f \in CodecFrames : InitCoder(f, <<>>)

NextCodec ==
    (\E p \in Coders : CoEncode(p)) \/ (\E p \in Coders : CoDecode(p, "encoded", "decoded"))

SpecCodec == InitCodec /\ [][NextCodec]_vars

IsByte(b) == b \in 0..255

\* C19: for a frame of a valid type, EncodeFrame gives 9 + len(payload) bytes: the
\* type, the stream ID and the payload length in big-endian order, the payload; and
\* DecodeFrame of these bytes succeeds, consumes them all and returns the same type,
\* stream ID and payload.
C19_RoundTrip ==
    \A p \in Coders :
        LET f == lv[p].frame
            b == lv[p].data
        IN  /\ pc[p] \in {"encoded", "decoded"} =>
                  /\ Len(b) = 9 + Len(f.payload)
                  /\ \A i \in 1..Len(b) : IsByte(b[i])
                  /\ b[1] = f.type
                  /\ b[2] * 256 + b[3] = f.id.hi /\ b[4] * 256 + b[5] = f.id.lo
                  /\ b[6] = 0 /\ b[7] = 0 /\ b[8] * 256 + b[9] = Len(f.payload)
                  /\ SubSeq(b, 10, Len(b)) = f.payload
            /\ pc[p] = "decoded" =>
                  /\ ret[p] = Ret(Len(b), "nil")
                  /\ lv[p].out = f

\* C19 witness: a DATA frame whose stream ID has four different bytes and whose payload
\* has two bytes went through EncodeFrame and DecodeFrame.
C19_Witness ==
    \E p \in Coders :
        /\ pc[p] = "decoded"
        /\ lv[p].frame = Frame(FrameData, [hi |-> 258, lo |-> 772], <<0, 255>>)
        /\ lv[p].out = lv[p].frame

(***************************************************************************)
(* SpecDecode: DecodeFrame applied to the bytes of a reader that start     *)
(* with any header: type bytes inside and outside 0x01..0x05, declared     *)
(* payload lengths around 10 MiB and up to 2^32 - 1, and up to             *)
(* MaxPayloadLen bytes after the header.                                   *)
(***************************************************************************)
RawTypes == {0, FrameOpenStream, FramePong, FramePong + 1, 255}

\* declared lengths: 0, 1, 10 MiB - 1, 10 MiB, 10 MiB + 1, 11 MiB, 2^24, 2^32 - 1
RawLens ==
    { <<0, 0, 0, 0>>, <<0, 0, 0, 1>>, <<0, 159, 255, 255>>, <<0, 160, 0, 0>>,
      <<0, 160, 0, 1>>, <<0, 176, 0, 0>>, <<1, 0, 0, 0>>, <<255, 255, 255, 255>> }

RawInputs ==
    { <<t>> \o <<0, 0, 0, 2>> \o l \o rest :
        t \in RawTypes, l \in RawLens, rest \in SeqsUpTo(CodecBytes, MaxPayloadLen) }

InitDecode == \E r \in RawInputs : InitCoder(NoFrame, r)

NextDecode == \E p \in Coders : CoDecode(p, "idle", "decoded")

SpecDecode == InitDecode /\ [][NextDecode]_vars

\* the header r declares a payload of more than 10 MiB = 00 A0 00 00 bytes
DeclaresTooLarge(r) == r[6] > 0 \/ r[7] > 160 \/ (r[7] = 160 /\ (r[8] > 0 \/ r[9] > 0))

\* C20: DecodeFrame returns InvalidFrame for a type byte outside 0x01..0x05, whatever
\* the declared length, and PayloadTooLarge for a valid type with a declared length
\* above 10 MiB; in both cases it has consumed the 9 header bytes and nothing more.
C20_DecodeErrors ==
    \A p \in Coders : pc[p] = "decoded" =>
        LET r == lv[p].data
        IN  /\ r[1] \notin 1..5 => ret[p] = Ret(9, "ErrInvalidFrame")
            /\ (r[1] \in 1..5 /\ DeclaresTooLarge(r)) => ret[p] = Ret(9, "ErrPayloadTooLarge")
            /\ ret[p].err \in {"ErrInvalidFrame", "ErrPayloadTooLarge"} => lv[p].out = NoFrame

\* C20 witness: a header with the type byte 0x06 and a declared length of 2^32 - 1,
\* followed by two more bytes, was decoded to InvalidFrame with 9 bytes consumed.
C20_Witness ==
    \E p \in Coders :
        /\ pc[p] = "decoded"
        /\ lv[p].data = <<6, 0, 0, 0, 2, 255, 255, 255, 255, 0, 255>>
        /\ ret[p] = Ret(9, "ErrInvalidFrame")

(***************************************************************************)
(* SpecShort: DecodeFrame applied to a reader that ends early: the         *)
(* encoding of a valid frame cut after any number of its bytes, from none  *)
(* to all but one.                                                         *)
(***************************************************************************)
ShortIDs == {U32(0), [hi |-> 258, lo |-> 772]}

ShortFrames ==
    { Frame(t, id, pl) : t \in FrameOpenStream..FramePong, id \in ShortIDs,
                         pl \in SeqsUpTo(CodecBytes, MaxPayloadLen) }

ShortInputs ==
    UNION { { SubSeq(EncodeFrame(f), 1, k) : k \in 0..(Len(EncodeFrame(f)) - 1) } :
            f \in ShortFrames }

InitShort == \E r \in ShortInputs : InitCoder(NoFrame, r)

NextShort == \E p \in Coders : CoDecode(p, "idle", "decoded")

SpecShort == InitShort /\ [][NextShort]_vars

\* C21: when the input ends before the 9 header bytes, or before the declared number
\* of payload bytes, DecodeFrame returns an error (the header read's or the payload
\* read's) and the zero frame, never a partially filled one.
C21_ShortRead ==
    \A p \in Coders : pc[p] = "decoded" =>
        LET r == lv[p].data
        IN  /\ ret[p].err # "nil"
            /\ lv[p].out = NoFrame
            /\ Len(r) < 9 => ret[p].err = "header"
            /\ Len(r) >= 9 => ret[p].err = "payload" /\ Len(r) - 9 < r[8] * 256 + r[9]

\* C21 witness: a DATA frame that declares two payload bytes and carries one was
\* decoded to the payload read's error.
C21_Witness ==
    \E p \in Coders :
        /\ pc[p] = "decoded"
        /\ lv[p].data = <<FrameData, 1, 2, 3, 4, 0, 0, 0, 2, 255>>
        /\ ret[p].err = "payload"
        /\ lv[p].out = NoFrame

(***************************************************************************)
(* SpecCoRead: the peer opens stream 2 and sends DATA frames on it; a user *)
(* accepts the stream and two goroutines call Read on it concurrently,     *)
(* with buffers of 1..MaxBuf bytes.  Read takes no lock (stream.go:44-80): *)
(* its steps are the check of readBuf and the select on dataCh.            *)
(***************************************************************************)
CoReadPayloads == { <<1, 2, 3>>, <<4, 5>> }

CoReadMsgs ==
    { EncodeFrame(Frame(FrameOpenStream, U32(2), <<>>)) }
    \cup { EncodeFrame(Frame(FrameData, U32(2), d)) : d \in CoReadPayloads }

CoReadCalls ==
    \/ \E p \in Acceptors : AcceptCall(p)
    \/ \E p \in CoReaders, s \in Handles, len \in 1..MaxBuf : SrCall(p, s, len)

CoReadSteps ==
    \/ RCheck \/ HoRegister \/ HoEnqueue \/ HdLookup \/ HdPush
    \/ \E p \in Acceptors : AsSelect(p)
    \/ \E p \in CoReaders : SrBuf(p) \/ SrSelect(p)

NextCoRead == CoReadCalls \/ CoReadSteps \/ RReadMsg(CoReadMsgs)

SpecCoRead == InitPeer /\ [][NextCoRead]_vars

\* how many times the byte x occurs in seq
Count(seq, x) == Cardinality({i \in DOMAIN seq : seq[i] = x})

\* C22: with two goroutines in Read on the same stream, every payload byte delivered
\* to the stream is returned to exactly one Read or is still held by the stream (in
\* the leftover buffer or in a queued payload): none is lost, none is returned twice.
C22_ExactlyOnce ==
    \A s \in Handles : \A x \in 0..255 :
        Count(Concat(hist.pushed[s]), x)
            = Count(hist.got[s], x) + Count(st[s].readBuf, x)
              + Count(Concat(st[s].dataCh), x)

(***************************************************************************)
(* runTunnelLoop and acceptStreams (the expose and preview commands).      *)
(* lv[Tunnel].ctxDone is the context of signal.NotifyContext,              *)
(* lv[Tunnel].exitCode what acceptStreams returned (-1 while it runs),     *)
(* hist.status the status the process ended with (-1 while it runs),       *)
(* hist.muxes the number of Muxes built so far.  The forwarders that       *)
(* acceptStreams starts are not part of the model.                         *)
(***************************************************************************)
MaxReconnects == 1

\* The interrupt signal: signal.NotifyContext cancels ctx.
Interrupt ==
    /\ pc[Tunnel] # "exited"
    /\ ~lv[Tunnel].ctxDone
    /\ lv' = [lv EXCEPT ![Tunnel].ctxDone = TRUE]
    /\ UNCHANGED <<m, conn, st, pc, ret, hist>>

\* AcceptStream returned a stream: go tunnel.Forward...(stream), next iteration
TlForward ==
    /\ pc[Tunnel] = "returned"
    /\ lv[Tunnel].exitCode = -1
    /\ ret[Tunnel].err = "nil"
    /\ Goto(Tunnel, "idle")
    /\ UNCHANGED <<m, conn, st, lv, ret, hist>>

\* AcceptStream returned an error: select { case <-ctx.Done(): return 0; default: };
\* return 2.  With 0 the loop goes on to StopTunnel, with 2 to mux.Close().
TlCtxCheck ==
    /\ pc[Tunnel] = "returned"
    /\ lv[Tunnel].exitCode = -1
    /\ ret[Tunnel].err # "nil"
    /\ IF lv[Tunnel].ctxDone
       THEN /\ lv' = [lv EXCEPT ![Tunnel].exitCode = 0]
            /\ Goto(Tunnel, "tl_stop")
       ELSE /\ lv' = [lv EXCEPT ![Tunnel].exitCode = 2]
            /\ Goto(Tunnel, "sd_once")
    /\ UNCHANGED <<m, conn, st, ret, hist>>

\* _ = apiClient.StopTunnel(tun.ID)
TlStop ==
    /\ pc[Tunnel] = "tl_stop"
    /\ hist' = [hist EXCEPT !.notified = TRUE]
    /\ Goto(Tunnel, "tl_conn")
    /\ UNCHANGED <<m, conn, st, lv, ret>>

\* conn.Close(websocket.StatusNormalClosure, "client shutdown"), then mux.Close()
TlConnClose ==
    /\ pc[Tunnel] = "tl_conn"
    /\ conn' = [conn EXCEPT !.closed = TRUE]
    /\ Goto(Tunnel, "sd_once")
    /\ UNCHANGED <<m, st, lv, ret, hist>>

\* mux.Close() returned on the graceful path: return nil, the process ends with status 0
TlReturn ==
    /\ pc[Tunnel] = "returned"
    /\ lv[Tunnel].exitCode = 0
    /\ hist' = [hist EXCEPT !.status = 0]
    /\ Goto(Tunnel, "exited")
    /\ UNCHANGED <<m, conn, st, lv, ret>>

\* mux.Close() returned after a connection loss: os.Exit(2) if reconnection is
\* disabled, else tunnel.Reconnect(ctx, ...) is called
TlLost ==
    /\ pc[Tunnel] = "returned"
    /\ lv[Tunnel].exitCode = 2
    /\ IF lv[Tunnel].noReconnect
       THEN /\ hist' = [hist EXCEPT !.status = 2]
            /\ Goto(Tunnel, "exited")
       ELSE /\ hist' = [hist EXCEPT !.reconnects = @ + 1,
                                    !.lateReconnect = @ \/ lv[Tunnel].ctxDone]
            /\ Goto(Tunnel, "tl_reconnect")
    /\ UNCHANGED <<m, conn, st, lv, ret>>

\* tunnel.Reconnect returns: a new transport, or an error (the attempts are used up,
\* or ctx is cancelled), and then os.Exit(2)
Reconnect ==
    /\ pc[Tunnel] = "tl_reconnect"
    /\ \/ /\ ~lv[Tunnel].ctxDone
          /\ hist.muxes <= MaxReconnects
          /\ Goto(Tunnel, "tl_newmux")
          /\ UNCHANGED hist
       \/ /\ hist' = [hist EXCEPT !.status = 2, !.reconnectFailed = TRUE]
          /\ Goto(Tunnel, "exited")
    /\ UNCHANGED <<m, conn, st, lv, ret>>

\* conn = newConn; mux := protocol.NewMux(conn, false).  mux.Close() has returned, so
\* the old Mux's done is closed: its reader and its writer have returned.
TlNewMux ==
    /\ pc[Tunnel] = "tl_newmux"
    /\ m' = NewMux(FALSE)
    /\ conn' = [NewConn EXCEPT !.inLeft = MaxInbound]
    /\ st' = [s \in Handles |-> NoStream]
    /\ pc' = [pc EXCEPT ![Reader] = "r_read", ![Writer] = "w_recv", ![Tunnel] = "idle"]
    /\ lv' = [lv EXCEPT ![Reader] = NoLocals, ![Writer] = NoLocals,
                        ![Tunnel].exitCode = -1]
    /\ hist' = [hist EXCEPT !.muxes = @ + 1]
    /\ UNCHANGED ret

acceptStreams == AcceptCall(Tunnel) \/ AsSelect(Tunnel) \/ TlForward \/ TlCtxCheck

runTunnelLoop ==
    \/ acceptStreams
    \/ TlStop \/ TlConnClose \/ TlReturn
    \/ TlLost \/ Reconnect \/ TlNewMux
    \/ shutdown(Tunnel) \/ CloseWaitDone(Tunnel)

(***************************************************************************)
(* SpecTunnel: the tunnel loop on a client Mux whose peer sends PING and   *)
(* OPEN_STREAM frames, with reconnection enabled or disabled; the          *)
(* transport may be lost and the interrupt signal may arrive at any time.  *)
(***************************************************************************)
TunnelMsgs ==
    { EncodeFrame(Frame(FramePing, U32(0), <<>>)),
      EncodeFrame(Frame(FrameOpenStream, U32(2), <<>>)) }

TunnelSteps ==
    \/ runTunnelLoop
    \/ RReadErr \/ RCheck \/ HoRegister \/ HoEnqueue \/ handlePing \/ RExit
    \/ shutdown(Reader)
    \/ writeLoop

InitTunnel ==
    \E nr \in BOOLEAN :
        /\ m = NewMux(FALSE)
        /\ conn = [NewConn EXCEPT !.inLeft = MaxInbound]
        /\ st = [s \in Handles |-> NoStream]
        /\ pc = [p \in Procs |-> IF p = Reader THEN "r_read"
                                 ELSE IF p = Writer THEN "w_recv" ELSE "idle"]
        /\ lv = [p \in Procs |-> IF p = Tunnel THEN [NoLocals EXCEPT !.noReconnect = nr]
                                 ELSE NoLocals]
        /\ ret = [p \in Procs |-> Pending]
        /\ hist = NoHist

NextTunnel == TunnelSteps \/ RReadMsg(TunnelMsgs) \/ TransportLoss \/ Interrupt

SpecTunnel == InitTunnel /\ [][NextTunnel]_vars

\* Every goroutine that can take a step eventually takes one; inbound messages, the
\* loss of the transport and the interrupt signal are up to the environment.
FairSpecTunnel == SpecTunnel /\ WF_vars(TunnelSteps)

LostMux(k) == hist.muxes = k /\ conn.broken /\ m.closed /\ ~lv[Tunnel].ctxDone

ChannelOps ==
    { "r_enq", "r_push", "r_ping", "os_write", "sc_write", "sw_ws", "sp_write",
      "as_select", "sr_select", "sr_drain", "w_recv", "sd_wait", "c_wait" }

\* the contents of the Mux's and the streams' channels
Channels == <<m.acceptCh, m.writeCh, [s \in Handles |-> st[s].dataCh]>>

\* a step of p that sends on or receives from a channel is taken without the lock
C25_ChannelStep ==
    \A p \in Procs : (pc'[p] # pc[p] /\ Channels' # Channels) => m.mu # p

\* C25: no goroutine that holds the registry lock is at a channel send or receive, nor
\* takes one; in particular the reader is at its send on the accept queue, and sends,
\* only with the registry lock released.
C25_NoChannelOpUnderLock ==
    /\ [](\A p \in Procs : m.mu = p => pc[p] \notin ChannelOps)
    /\ [][C25_ChannelStep]_vars

\* C25 witness: the reader has registered a stream and enqueued it on the accept queue,
\* and the shutdown now holds the registry lock with that stream to sweep.
C25_Witness ==
    /\ m.acceptCh # <<>>
    /\ \E p \in Procs : m.mu = p /\ pc[p] = "sd_sweep" /\ Head(m.acceptCh) \in lv[p].sweep

\* C26: a local Stream.Close and the shutdown never wait for each other: there is no
\* state in which a Stream.Close, inside the stream's closeOnce, waits for the registry
\* lock while the shutdown, holding the registry lock, waits for that closeOnce.
C26_NoDeadlock ==
    ~ \E p \in SClosers, q \in Procs :
          /\ pc[p] = "sc_remove" /\ st[lv[p].s].closeOnce = "running"
          /\ m.mu = q /\ pc[q] = "sd_sweep" /\ lv[q].sweep = {lv[p].s}

(***************************************************************************)
(* SpecCancel: a caller of AcceptStream on an open client Mux whose        *)
(* context may be cancelled while the call is in progress and who calls    *)
(* again with a new context; the peer sends OPEN_STREAM frames.            *)
(***************************************************************************)
\* the caller's context is cancelled during its AcceptStream call
\* (hist.cancelBlocked: the accept queue was empty then)
CtxCancel(p) ==
    /\ pc[p] = "as_select"
    /\ ~lv[p].ctxDone
    /\ lv' = [lv EXCEPT ![p].ctxDone = TRUE]
    /\ hist' = [hist EXCEPT !.cancelBlocked = @ \/ (m.acceptCh = <<>> /\ ~m.closed)]
    /\ UNCHANGED <<m, conn, st, pc, ret>>

\* the caller calls AcceptStream again, with a context that is not cancelled
\* (hist.lateOpen: the call before returned the cancellation error and no OPEN_STREAM
\* had arrived yet)
AcceptNewCtx(p) ==
    /\ pc[p] = "returned"
    /\ Goto(p, "as_select")
    /\ lv' = [lv EXCEPT ![p].ctxDone = FALSE]
    /\ ret' = [ret EXCEPT ![p] = Pending]
    /\ hist' = [hist EXCEPT !.lateOpen = @ \/ (/\ ret[p].err = "ctx.Err"
                                                /\ hist.cancelBlocked
                                                /\ conn.inLeft = AdmitInbound)]
    /\ UNCHANGED <<m, conn, st>>

CancelCalls == \E p \in Acceptors : AcceptCall(p) \/ AcceptNewCtx(p) \/ CtxCancel(p)

CancelSteps ==
    \/ RCheck \/ HoRegister \/ HoEnqueue
    \/ \E p \in Acceptors : AsSelect(p)

InitCancel == InitMux(FALSE, AdmitInbound)

NextCancel == CancelCalls \/ CancelSteps \/ RReadMsg(AdmitMsgs)

SpecCancel == InitCancel /\ [][NextCancel]_vars

\* the streams handed out, then those queued, then the one the reader is about to queue
AcceptLine ==
    hist.accepted \o m.acceptCh
        \o (IF pc[Reader] = "r_enq" THEN <<lv[Reader].s>> ELSE <<>>)

\* a return of AcceptStream: with the cancellation error it has taken nothing from the
\* accept queue; from an empty queue, with the context cancelled, it is that error
C27_Return ==
    \A p \in Acceptors : (pc[p] = "as_select" /\ pc'[p] = "returned") =>
        /\ ret'[p].err = "ctx.Err" =>
              m.acceptCh' = m.acceptCh /\ hist.accepted' = hist.accepted
        /\ (m.acceptCh = <<>> /\ lv[p].ctxDone) => ret'[p].err = "ctx.Err"

\* C27: on an open mux, AcceptStream with its context cancelled and the accept queue
\* empty returns the cancellation error, and a call that returns the cancellation
\* error takes no stream from the queue: every inbound stream is, in the order of
\* arrival and exactly once, handed to an AcceptStream call or still in line for the
\* next one.
C27_CancelKeepsStreams ==
    /\ [](AcceptLine = [i \in 1..Cardinality(InboundStreams) |-> i])
    /\ [][C27_Return]_vars

\* C27 witness: a call was cancelled while blocked on the empty queue and returned the
\* cancellation error before any OPEN_STREAM arrived; the next call has returned the
\* stream that arrived afterwards.
C27_Witness ==
    \E p \in Acceptors :
        /\ hist.lateOpen
        /\ pc[p] = "returned" /\ ret[p].err = "nil"
        /\ hist.accepted = <<lv[p].s>>
        /\ st[lv[p].s].ID = U32(2)

(***************************************************************************)
(* Claims about the order of the shutdown's steps.                         *)
(***************************************************************************)
ShutdownOrder == <<"closed", "swept", "acceptCh", "writeCh", "writeDone", "conn">>

\* the step that ends the sweep: every stream registered when the sweep took the lock
\* has its read side closed, and the registry is emptied
C28_Sweep ==
    (Len(hist.order') > Len(hist.order) /\ hist.order'[Len(hist.order')] = "swept") =>
        /\ \A s \in Range(m.streams) : st[s].closed
        /\ m.streams' = EmptyMap

\* C28: the shutdown takes its steps in the order of ShutdownOrder (m.closed closed,
\* streams swept and registry emptied, accept queue closed, outbound queue closed,
\* writer's exit awaited, transport closed), each at most once; and when the transport
\* has been closed and no write has failed, every frame enqueued on the outbound queue
\* has been written to the transport, in order.
C28_ShutdownOrder ==
    /\ [](IsPrefix(hist.order, ShutdownOrder))
    /\ [](Len(hist.order) >= 5 => m.writeDone /\ m.writeCh = <<>>)
    /\ []((conn.closed /\ ~hist.writeFailed) => conn.sent = hist.enq)
    /\ [][C28_Sweep]_vars

\* C28 witness: the shutdown has taken all its steps, no write failed, and the two
\* frames that were enqueued (an OPEN_STREAM and a PONG) have been written.
C28_Witness ==
    /\ hist.order = ShutdownOrder
    /\ ~hist.writeFailed
    /\ conn.sent = hist.enq
    /\ Len(conn.sent) = 2

\* no call of OpenStream and no dispatch of an OPEN_STREAM frame is in progress
OpensAtRest ==
    /\ pc[Reader] = "exited"
    /\ \A p \in Openers : pc[p] \in {"idle", "returned"}

\* C29: once the shutdown has completed and the OpenStream calls and the reader's
\* dispatch that overlapped it have finished, no stream is registered in the mux.
C29_RegistryEmpty ==
    (m.once = "done" /\ OpensAtRest) => m.streams = EmptyMap

\* C30: the reader never sends on the accept queue after the queue has been closed:
\* no dispatch of an OPEN_STREAM frame ends in the panic of a send on a closed channel.
C30_NoSendOnClosed == ~hist.panic

(***************************************************************************)
(* Claims about the registry and the teardown of streams.                  *)
(***************************************************************************)
\* an operation that closes stream s is running: a local Close inside the stream's
\* closeOnce, handleCloseStream between closeRead and removeStream, or the sweep
TearingDown(s) ==
    \/ \E p \in SClosers : lv[p].s = s /\ pc[p] \in {"sc_write", "sc_remove"}
    \/ pc[Reader] = "r_remove" /\ lv[Reader].s = s
    \/ \E p \in Procs : m.mu = p /\ pc[p] = "sd_sweep"

\* s.closed is closed by a step only if the stream's closeOnce has not run before, and
\* it stays closed
C31_ClosedOnce ==
    \A s \in Handles :
        /\ (st'[s].closed /\ ~st[s].closed) => st[s].closeOnce = "idle"
        /\ hist'.trigger[s] # hist.trigger[s] => st[s].closeOnce = "idle"
        /\ st[s].closed => st'[s].closed

\* C31: a closed stream is in the registry only while the local Close, the remote
\* close or the shutdown that closed it is still running, so that the operation has
\* removed the entry when it finishes; and each stream's s.closed is closed at most once.
C31_LiveOrTearingDown ==
    /\ [](\A id \in DOMAIN m.streams :
             st[m.streams[id]].closed => TearingDown(m.streams[id]))
    /\ [](\A s \in Handles : st[s].closed <=> st[s].closeOnce # "idle")
    /\ [][C31_ClosedOnce]_vars

\* C31 witness: a stream was closed by a CLOSE_STREAM frame from the peer, the reader
\* has finished handleCloseStream and the stream is no longer registered, and a local
\* Close on it has returned as well.
C31_Witness ==
    \E s \in Handles :
        /\ st[s].closed /\ hist.trigger[s] = "remote"
        /\ st[s].ID \notin DOMAIN m.streams
        /\ pc[Reader] = "r_read"
        /\ \E p \in SClosers : pc[p] = "returned" /\ lv[p].s = s

\* C32: on an open mux, for every stream s that OpenStream or AcceptStream has
\* returned and that is not closed, the registry maps s.ID to s.
C32_RegistryMaps ==
    ~m.closed =>
        \A s \in Handles : (Returned(s) /\ ~st[s].closed) =>
            /\ st[s].ID \in DOMAIN m.streams
            /\ m.streams[st[s].ID] = s

\* C33: on the outbound queue no DATA frame of a stream follows the CLOSE_STREAM frame
\* of that stream.
C33_NoDataAfterClose ==
    \A i, j \in 1..Len(hist.enq) :
        (i < j /\ hist.enq[i][1] = FrameCloseStream /\ hist.enq[j][1] = FrameData)
            => Uint32(SubSeq(hist.enq[i], 2, 5)) # Uint32(SubSeq(hist.enq[j], 2, 5))

(***************************************************************************)
(* Claims about the outbound queue and the writer.                         *)
(***************************************************************************)
\* the frame the writer has taken from writeCh and not written yet
WriterHolds == IF pc[Writer] = "w_write" THEN <<lv[Writer].data>> ELSE <<>>

CoWritePayloads(p) == IF p = "swrite1" THEN { <<7>>, <<8, 9>> } ELSE { <<5, 6>> }

CoWriteCalls ==
    \/ \E p \in {"close1"} : CloseCall(p)
    \/ \E p \in {"open1"} : OsCheck(p)
    \/ \E p \in {"sclose1"} : ScCall(p)
    \/ \E p \in CoWriters : SwCheck(p, CoWritePayloads(p))

CoWriteSteps ==
    \/ RReadErr \/ RExit \/ shutdown(Reader)
    \/ writeLoop
    \/ \E p \in {"close1"} : shutdown(p) \/ CloseWaitDone(p)
    \/ \E p \in {"open1"} : OsAlloc(p) \/ OsRegister(p) \/ OsWrite(p) \/ OsRemove(p)
    \/ \E p \in {"sclose1"} : ScEnter(p) \/ ScWrite(p) \/ ScRemove(p)
    \/ \E p \in CoWriters : SwLock(p) \/ SwFn(p) \/ SwWs(p) \/ SwUnlock(p)

NextCoWrite == CoWriteCalls \/ CoWriteSteps

SpecCoWrite == InitPair /\ [][NextCoWrite]_vars

\* the Write call of p has enqueued its frame
Enqueued(p) == pc[p] \in {"sw_unlock", "returned"} /\ ret[p].err = "nil" /\ lv[p].s # 0

\* the calls of seq that have enqueued, in the order of seq
RECURSIVE SelectWriters(_)
SelectWriters(seq) ==
    IF seq = <<>> THEN <<>>
    ELSE (IF Enqueued(Head(seq)) THEN <<Head(seq)>> ELSE <<>>) \o SelectWriters(Tail(seq))

\* the DATA frames of the outbound queue's history, in order
EnqueuedData == SelectSeq(hist.enq, LAMBDA f : f[1] = FrameData)

\* C35: the DATA frames enqueued are, in order, one frame per Write call that has
\* enqueued, in the order in which these calls took the stream's write lock, and each
\* frame carries the stream's ID and the whole of the call's input; a call that
\* succeeded returned the length of its input.
C35_OneFramePerWrite ==
    LET w == SelectWriters(hist.wrLocks)
    IN  /\ Len(EnqueuedData) = Len(w)
        /\ \A i \in 1..Len(w) :
              /\ EnqueuedData[i] =
                    EncodeFrame(Frame(FrameData, st[lv[w[i]].s].ID, lv[w[i]].data))
              /\ ret[w[i]].n = Len(lv[w[i]].data)

\* C35 witness: swrite2 took the write lock before swrite1 while both were in Write
\* on stream 1, and the queue got <<5, 6>> first and <<8, 9>> second.
C35_Witness ==
    /\ hist.wrLocks = <<"swrite2", "swrite1">>
    /\ pc["swrite1"] = "returned" /\ pc["swrite2"] = "returned"
    /\ EnqueuedData = << EncodeFrame(Frame(FrameData, U32(1), <<5, 6>>)),
                         EncodeFrame(Frame(FrameData, U32(1), <<8, 9>>)) >>

(***************************************************************************)
(* SpecDrop: the peer sends, in any order, frames for stream 2 (which it   *)
(* may or may not have opened), frames for stream 4 (which it never        *)
(* opens), pings, and messages that are not frames; the user may close the *)
(* mux.                                                                    *)
(***************************************************************************)
\* DATA and CLOSE_STREAM for a stream the peer never opens
UnknownMsgs ==
    { EncodeFrame(Frame(FrameData, U32(4), <<4>>)),
      EncodeFrame(Frame(FrameCloseStream, U32(4), <<>>)) }

\* no bytes; a header cut after 8 bytes; an unknown type; a declared length of
\* 10 MiB + 1; a DATA frame that declares 2 payload bytes and carries 1
BadMsgs ==
    { <<>>,
      SubSeq(EncodeFrame(Frame(FrameOpenStream, U32(2), <<>>)), 1, 8),
      <<6>> \o PutUint32(U32(2)) \o PutUint32(U32(0)),
      <<FrameData>> \o PutUint32(U32(2)) \o PutUint32(U32(MaxPayloadSize + 1)) \o <<4>>,
      <<FrameData>> \o PutUint32(U32(2)) \o PutUint32(U32(2)) \o <<4>> }

DropMsgs ==
    { EncodeFrame(Frame(FrameOpenStream, U32(2), <<>>)),
      EncodeFrame(Frame(FrameData, U32(2), <<4>>)),
      EncodeFrame(Frame(FrameCloseStream, U32(2), <<>>)),
      EncodeFrame(Frame(FramePing, U32(0), <<>>)) }
    \cup UnknownMsgs \cup BadMsgs

DropCalls == \E p \in {"close1"} : CloseCall(p)

DropSteps ==
    \/ RReadErr \/ RCheck \/ RExit \/ shutdown(Reader)
    \/ HoRegister \/ HoEnqueue \/ HdLookup \/ HdPush
    \/ HcLookup \/ HcCloseRead \/ HcRemove \/ handlePing
    \/ writeLoop
    \/ \E p \in {"close1"} : shutdown(p) \/ CloseWaitDone(p)

InitDrop == InitMux(FALSE, DropInbound)

NextDrop == DropCalls \/ DropSteps \/ RReadMsg(DropMsgs)

SpecDrop == InitDrop /\ [][NextDrop]_vars

\* the reader's step out of handleData or handleCloseStream for an ID that the
\* registry does not hold changes nothing and takes the reader to its next read
C36_DropStep ==
    (/\ pc[Reader] \in {"r_data", "r_close"}
     /\ pc'[Reader] # pc[Reader]
     /\ lv[Reader].id \notin DOMAIN m.streams)
    => /\ pc'[Reader] = "r_read"
       /\ m' = m /\ st' = st /\ conn' = conn /\ ret' = ret /\ hist' = hist

\* C36: a DATA or CLOSE_STREAM frame whose stream ID is not in the registry is
\* dropped: the registry, every stream, the queues and the transport are unchanged
\* and the reader goes on to read the next message.
C36_UnknownDropped == [][C36_DropStep]_vars

\* C36 witness: stream 2 is registered and has received its payload, and the reader
\* is back at its read after a DATA frame for stream 4, which nobody opened.
C36_Witness ==
    /\ pc[Reader] = "r_read"
    /\ lv[Reader].data = EncodeFrame(Frame(FrameData, U32(4), <<4>>))
    /\ ~m.closed
    /\ U32(2) \in DOMAIN m.streams
    /\ hist.pushed[m.streams[U32(2)]] = << <<4>> >>
    /\ st[m.streams[U32(2)]].dataCh = << <<4>> >>

\* the message is shorter than a header or DecodeFrame rejects it
Undecodable(data) == Len(data) < frameHeaderSize \/ DecodeFrame(data).err # "nil"

\* the reader's step after reading a message that is not a frame changes nothing
\* and takes the reader to its next read
C37_DiscardStep ==
    (/\ pc[Reader] = "r_check"
     /\ pc'[Reader] # pc[Reader]
     /\ Undecodable(lv[Reader].data))
    => /\ pc'[Reader] = "r_read"
       /\ m' = m /\ st' = st /\ conn' = conn /\ ret' = ret /\ hist' = hist

\* C37: a transport message shorter than 9 bytes, or one that does not decode as a
\* frame (unknown type, declared length above the maximum, payload cut short), is
\* discarded with no change to the mux, its streams or the transport and without a
\* shutdown; the reader goes on to read the next message.
C37_BadMessageDiscarded == [][C37_DiscardStep]_vars

\* C37 witness: the reader is back at its read after the DATA frame that is cut
\* short, the mux is open, and stream 2 still holds the payload it got before.
C37_Witness ==
    /\ pc[Reader] = "r_read"
    /\ lv[Reader].data = <<FrameData>> \o PutUint32(U32(2)) \o PutUint32(U32(2)) \o <<4>>
    /\ ~m.closed /\ m.once = "idle"
    /\ U32(2) \in DOMAIN m.streams
    /\ st[m.streams[U32(2)]].dataCh = << <<4>> >>

(***************************************************************************)
(* SpecSendPing: two users call SendPing, a user opens a stream and closes *)
(* it, the peer sends PING frames, and the user may close the mux at any   *)
(* time.                                                                   *)
(***************************************************************************)
SendPingCalls ==
    \/ \E p \in {"close1"} : CloseCall(p)
    \/ \E p \in {"open1"} : OsCheck(p)
    \/ \E p \in {"sclose1"} : ScCall(p)
    \/ \E p \in Pingers : SpCheck(p)

SendPingSteps ==
    \/ RReadErr \/ RCheck \/ handlePing \/ RExit \/ shutdown(Reader)
    \/ writeLoop
    \/ \E p \in {"close1"} : shutdown(p) \/ CloseWaitDone(p)
    \/ \E p \in {"open1"} : OsAlloc(p) \/ OsRegister(p) \/ OsWrite(p) \/ OsRemove(p)
    \/ \E p \in {"sclose1"} : ScEnter(p) \/ ScWrite(p) \/ ScRemove(p)
    \/ \E p \in Pingers : SpWrite(p)

NextSendPing == SendPingCalls \/ SendPingSteps \/ RReadMsg(PingMsgs)

InitSendPing == InitMux(FALSE, SendPingInbound)

SpecSendPing == InitSendPing /\ [][NextSendPing]_vars

\* the frame decodes, PING and PONG carry stream ID 0, and every type but DATA
\* carries no payload
WellFormed(data) ==
    LET d == DecodeFrame(data)
    IN  /\ d.err = "nil"
        /\ d.consumed = Len(data)
        /\ d.frame.type \in {FramePing, FramePong} => d.frame.id = U32(0)
        /\ d.frame.type # FrameData => d.frame.payload = <<>> /\ Len(data) = frameHeaderSize

\* the PING frames enqueued are one per SendPing call that returned nil
C38_OnePingPerCall ==
    Cardinality({i \in 1..Len(hist.enq) : hist.enq[i][1] = FramePing})
        = Cardinality({p \in Pingers : pc[p] = "returned" /\ ret[p].err = "nil"})

\* a SendPing called on a mux that has shut down returns MuxClosed and enqueues
\* nothing
C38_ClosedCall ==
    \A p \in Pingers :
        (pc[p] = "idle" /\ m.closed /\ pc'[p] # "idle") =>
            /\ pc'[p] = "returned"
            /\ ret'[p].err = "ErrMuxClosed"
            /\ m' = m /\ hist' = hist

\* C38: every frame put on the outbound queue is well-formed for its type (PING and
\* PONG with stream ID 0; OPEN_STREAM, CLOSE_STREAM, PING and PONG without payload);
\* each SendPing that returns nil has enqueued exactly one PING frame, and a SendPing
\* called after the mux has shut down returns MuxClosed and enqueues nothing.
C38_FramesWellFormed ==
    /\ [](\A i \in 1..Len(hist.enq) : WellFormed(hist.enq[i]))
    /\ []C38_OnePingPerCall
    /\ [][C38_ClosedCall]_vars

\* C38 witness: one SendPing returned nil on the open mux, the other was called
\* after the shutdown and got MuxClosed; the queue's history holds one PING, and the
\* OPEN_STREAM and CLOSE_STREAM of stream 1.
C38_Witness ==
    /\ pc["ping1"] = "returned" /\ ret["ping1"].err = "nil"
    /\ pc["ping2"] = "returned" /\ ret["ping2"].err = "ErrMuxClosed"
    /\ Cardinality({i \in 1..Len(hist.enq) : hist.enq[i][1] = FramePing}) = 1
    /\ \E i, j \in 1..Len(hist.enq) :
          /\ hist.enq[i] = EncodeFrame(Frame(FrameOpenStream, U32(1), <<>>))
          /\ hist.enq[j] = EncodeFrame(Frame(FrameCloseStream, U32(1), <<>>))

(***************************************************************************)
(* SpecPong: the peer sends PONG frames while two users register pong      *)
(* callbacks (or nil) with OnPong.                                         *)
(***************************************************************************)
PongFns == {0, 1, 2}

PongMsgs == { EncodeFrame(Frame(FramePong, U32(0), <<>>)) }

InitPong == InitMux(FALSE, PongInbound)

NextPong ==
    \/ \E p \in Registrars, fn \in PongFns : OnPong(p, fn)
    \/ RReadMsg(PongMsgs)
    \/ RCheck
    \/ HpLoad
    \/ HpCall

SpecPong == InitPong /\ [][NextPong]_vars

PongsDone ==
    (PongInbound - conn.inLeft) - (IF pc[Reader] \in {"r_check", "r_pong", "r_fn"} THEN 1 ELSE 0)

\* the reader's two steps in handlePong: it reads the slot as it is at that moment
\* and invokes nothing yet; then it invokes what it read, once, or nothing for nil
C39_PongStep ==
    /\ (pc[Reader] = "r_pong" /\ pc'[Reader] # "r_pong")
          => /\ pc'[Reader] = "r_fn"
             /\ lv'[Reader].fn = m.onPong
             /\ m' = m /\ hist' = hist
    /\ (pc[Reader] = "r_fn" /\ pc'[Reader] # "r_fn")
          => /\ pc'[Reader] = "r_read"
             /\ m' = m
             /\ hist'.pongs = IF lv[Reader].fn # 0
                              THEN Append(hist.pongs, lv[Reader].fn) ELSE hist.pongs

EmptyPayloads == { <<>>, <<4>>, <<5>> }

EmptyMsgs ==
    { EncodeFrame(Frame(FrameOpenStream, U32(2), <<>>)),
      EncodeFrame(Frame(FrameCloseStream, U32(2), <<>>)) }
    \cup { EncodeFrame(Frame(FrameData, U32(2), d)) : d \in EmptyPayloads }

NextEmpty == PeerCalls \/ PeerSteps \/ RReadMsg(EmptyMsgs)

SpecEmpty == InitPeer /\ [][NextEmpty]_vars

\* the Reads of stream s that returned without error, in order
ReadsOk(s) == SelectSeq(hist.reads[s], LAMBDA r : r.err = "nil")

\* C40: each Read that returns without error returns one payload of the stream's
\* inbound queue, in the order the payloads were queued: 0 bytes and no error for an
\* empty payload, and the payloads after it whole and unchanged.
C40_EmptyPayloadDelivered ==
    \A s \in Handles :
        /\ Len(ReadsOk(s)) <= Len(hist.pushed[s])
        /\ \A i \in 1..Len(ReadsOk(s)) : ReadsOk(s)[i].n = Len(hist.pushed[s][i])
        /\ hist.got[s] = Concat(SubSeq(hist.pushed[s], 1, Len(ReadsOk(s))))

\* C40 witness: the stream got an empty payload and then <<4>>; the first Read
\* returned 0 and no error, the second returned the byte 4.
C40_Witness ==
    \E s \in Handles :
        /\ hist.pushed[s] = << <<>>, <<4>> >>
        /\ hist.reads[s] = << Ret(0, "nil"), Ret(1, "nil") >>
        /\ hist.got[s] = <<4>>

====
